---- MODULE Spec2Model ----
(***************************************************************************)
(* A model of the crypto-article pipeline of quatumprince/newaiagent:      *)
(* cointelegraph.py (run_ultimate_agent and the functions it calls),       *)
(* main.py (the HTTP wrapper) and the variants of ultimate_crypto_agent.py.*)
(*                                                                         *)
(* Text is modelled as a sequence of one-character strings, so that        *)
(* str.strip, str.split, str.lower and str.startswith are computed         *)
(* character by character, as Python computes them.                        *)
(***************************************************************************)
EXTENDS Integers, Sequences, FiniteSets, TLC

VARIABLES
    pc,        \* position of the (single-threaded) control flow
    scope,     \* what is explored: "run" (a whole run), "generate" (a run from the
               \* generation on), "extract" (extract_article_data called alone),
               \* "fetch" (get_latest_articles_from_multiple_sources called alone),
               \* "export" (runs that follow one another, from the generation on),
               \* "keywords" (get_advanced_keywords called alone),
               \* "enhance" (the generation of ultimate_crypto_agent.py, for any scores),
               \* "call" (one function of the scripts called alone on its arguments),
               \* "server" (the requests one server process of main.py receives)
    script,    \* the script that runs: "cointelegraph" or "ultimate" (ultimate_crypto_agent.py)
    entry,     \* how the run was started: "cli" (python <script>) or "http" (POST /generate)
    MODEL_ID,  \* cointelegraph.py:56, the value of os.getenv("MODEL_ID")
    DEEPSEEK_KEY, \* cointelegraph.py:55, the value of os.getenv("DEEPSEEK_KEY")
    sources,   \* the configured list RSS_SOURCES (cointelegraph.py:60-64)
    feeds,     \* the world: what feedparser.parse gives for each of RSS_SOURCES
    trends,    \* the world: what the trend service does during get_advanced_keywords
    quality,   \* the world: what analyze_content_quality gives for the draft and
               \* for the enhanced text (ultimate_crypto_agent.py)
    clock,     \* the world: datetime.now(), in whole seconds
    args,      \* the arguments of a function that is called alone (scope "call")
    ret,       \* what that function returned
    server,    \* the server process of main.py: the requests that wait, the one whose
               \* handler runs, and what happened so far (scope "server")
    fidx,      \* index of the feed the current loop is at
    articles,  \* all_articles of get_latest_articles_from_multiple_sources
    best,      \* best_article of run_ultimate_agent
    url,       \* the url argument of extract_article_data
    scrape,    \* outcome of the try block of extract_article_data
    art,       \* the record extract_article_data returned
    keywords,  \* keywords of run_ultimate_agent (what get_advanced_keywords returned)
    insights,  \* competitor_insights of run_ultimate_agent
    prompt,    \* prompt of run_ultimate_agent: what build_advanced_prompt put into it
    draft,     \* the cleaned stage-1 text of generate_advanced_content
    response2, \* the answer of the second completion call
    content,   \* what generate_advanced_content returned
    calls,     \* how many times each stage called the completion endpoint
    title,     \* the title handed to export_advanced_html
    body,      \* body_content handed to export_advanced_html
    files,     \* the HTML files of OUTPUT_DIR, in the order of their creation
    result,    \* what run_ultimate_agent returned
    error,     \* the exception that ended the run, if one did
    response,  \* the response of POST /generate
    net        \* the network calls issued so far, in order

world == <<scope, script, entry, MODEL_ID, DEEPSEEK_KEY, sources, feeds, trends, quality, clock,
           args>>
env == <<world, ret, server>>
fetched == <<articles, best, url>>
generated == <<draft, response2, content, calls>>
outcome == <<title, body, files, result, error, response>>

vars ==
    <<pc, env, fidx, fetched, scrape, art, keywords, insights, prompt, generated, outcome, net>>

-----------------------------------------------------------------------------
(* Bounds of the model.                                                    *)

\* longest feed (number of entries) the world holds
MaxEntries == 2

\* most lines of an answer of the completion endpoint: of stage 1, of stage 2
MaxDraftLines == 2
MaxLines == 3

-----------------------------------------------------------------------------
(* Python strings.                                                         *)

\* the characters str.strip() removes (those of them the model's texts use)
WS == {" ", "\t", "\n", "\r", "\f"}

RECURSIVE LStrip(_, _)
LStrip(s, cs) == IF s = <<>> \/ Head(s) \notin cs THEN s ELSE LStrip(Tail(s), cs)

RECURSIVE RStrip(_, _)
RStrip(s, cs) ==
    IF s = <<>> \/ s[Len(s)] \notin cs THEN s ELSE RStrip(SubSeq(s, 1, Len(s) - 1), cs)

\* str.strip(chars)
StripChars(s, cs) == RStrip(LStrip(s, cs), cs)

\* str.strip()
Strip(s) == StripChars(s, WS)

\* str.split(c): always at least one piece
RECURSIVE Split(_, _)
Split(s, c) ==
    IF \A i \in 1..Len(s) : s[i] # c
    THEN <<s>>
    ELSE LET i == CHOOSE k \in 1..Len(s) : s[k] = c /\ \A j \in 1..(k - 1) : s[j] # c
         IN  <<SubSeq(s, 1, i - 1)>> \o Split(SubSeq(s, i + 1, Len(s)), c)

\* sep.join(parts)
RECURSIVE Join(_, _)
Join(parts, sep) ==
    IF parts = <<>> THEN <<>>
    ELSE IF Len(parts) = 1 THEN parts[1]
    ELSE parts[1] \o sep \o Join(Tail(parts), sep)

\* [x for x in xs if x]
RECURSIVE NonEmpty(_)
NonEmpty(xs) ==
    IF xs = <<>> THEN <<>>
    ELSE IF Head(xs) = <<>> THEN NonEmpty(Tail(xs))
    ELSE <<Head(xs)>> \o NonEmpty(Tail(xs))

\* [f(x) for x in xs] with f = str.strip
StripEach(xs) == [i \in 1..Len(xs) |-> Strip(xs[i])]

StartsWith(s, p) == Len(s) >= Len(p) /\ SubSeq(s, 1, Len(p)) = p

NL == <<"\n">>
NLNL == <<"\n", "\n">>

\* string constants of the source
Untitled == <<"U", "n", "t", "i", "t", "l", "e", "d">>
UntitledArticle == Untitled \o <<" ", "A", "r", "t", "i", "c", "l", "e">>

-----------------------------------------------------------------------------
(* HTML, as BeautifulSoup sees it: a sequence of nodes, each a tag or a    *)
(* text string.                                                            *)

Tag(n) == [kind |-> "tag", s |-> n]
Txt(s) == [kind |-> "text", s |-> s]

\* the stripped, non-empty strings of a document, in order
RECURSIVE Strings(_)
Strings(html) ==
    IF html = <<>> THEN <<>>
    ELSE LET h == Head(html)
         IN  IF h.kind = "text" /\ Strip(h.s) # <<>>
             THEN <<Strip(h.s)>> \o Strings(Tail(html))
             ELSE Strings(Tail(html))

\* Tag.get_text(strip=True): the stripped strings joined by the empty separator
GetText(html) == Join(Strings(html), <<>>)

-----------------------------------------------------------------------------
(* Configuration (cointelegraph.py:55-64).                                 *)

\* the value of an environment variable that is not set
None == "<None>"

\* RSS_SOURCES, the weights in tenths
RSS_SOURCES == <<
    [name |-> "Cointelegraph", weight |-> 10],
    [name |-> "CoinDesk", weight |-> 8],
    [name |-> "Decrypt", weight |-> 7] >>

NumFeeds == Len(RSS_SOURCES)

-----------------------------------------------------------------------------
(* The world: feeds and pages.                                             *)

T1 == <<"T", "1">>
T2 == <<"T", "2">>
T3 == <<"T", "3">>
U1 == <<"u", "1">>
U2 == <<"u", "2">>
U3 == <<"u", "3">>

\* a feed entry; has* tell whether feedparser gives the entry that attribute
EntryA == [hasTitle |-> TRUE, title |-> T1, hasLink |-> TRUE, link |-> U1,
           hasSummary |-> TRUE, summary |-> <<Tag("p"), Txt(<<" ", "S", "1", " ">>), Tag("/p")>>]
\* a summary that is markup and blanks only
EntryB == [hasTitle |-> TRUE, title |-> T2, hasLink |-> TRUE, link |-> U2,
           hasSummary |-> TRUE, summary |-> <<Tag("p"), Txt(<<" ">>), Tag("/p")>>]
\* no title, no link
EntryC == [hasTitle |-> FALSE, title |-> <<>>, hasLink |-> FALSE, link |-> <<>>,
           hasSummary |-> TRUE, summary |-> <<Txt(<<"S", "2">>)>>]
\* no summary
EntryD == [hasTitle |-> TRUE, title |-> T2, hasLink |-> TRUE, link |-> U2,
           hasSummary |-> FALSE, summary |-> <<>>]
\* the entries after the first of a feed
EntryF == [hasTitle |-> TRUE, title |-> T3, hasLink |-> TRUE, link |-> U3,
           hasSummary |-> TRUE, summary |-> <<Txt(<<"S", "3">>)>>]

FirstEntries == {EntryA, EntryB, EntryC, EntryD}

\* what feedparser.parse(source["url"]) does: raise, or give a feed with entries
FeedRaises == [raises |-> TRUE, entries |-> <<>>]
FeedOf(es) == [raises |-> FALSE, entries |-> es]

FeedOutcomes ==
    {FeedRaises, FeedOf(<<>>)} \cup
    {FeedOf(<<e>> \o [i \in 1..(n - 1) |-> EntryF]) : e \in FirstEntries, n \in 1..MaxEntries}

Worlds == [1..NumFeeds -> FeedOutcomes]

\* what the try block of get_advanced_keywords (cointelegraph.py:263-278) meets:
\* the calls to the trend service it issues before it ends (by an exception, or
\* after the last topic), the rising queries it has gathered by then, and
\* whether it ended by an exception. Here the service fails at the first call.
TrendsDown == [queries |-> 1, terms |-> <<>>, raised |-> TRUE]

\* what analyze_content_quality gives: {} or metrics with a quality_score
NoMetrics == [empty |-> TRUE, quality_score |-> 0]
Metrics(q) == [empty |-> FALSE, quality_score |-> q]

\* no function is called alone
NoArgs == [fn |-> "none"]
NoReturn == [returned |-> FALSE]

\* no request has reached the server
IdleServer == [arrived |-> 0, ready |-> <<>>, current |-> 0, active |-> {}, events |-> <<>>]

\* no text can be analysed
NoQuality == [draft |-> NoMetrics, enhanced |-> NoMetrics]

\* the url arguments tried
Urls == {U1, <<>>}

\* title_selectors (cointelegraph.py:368) and content_selectors (369-375)
NumTitleSelectors == 4
NumContentSelectors == 5

\* what soup.select_one(selector) gives: no tag, or a tag with these contents
NoTag == [found |-> FALSE, html |-> <<>>]
TagWith(h) == [found |-> TRUE, html |-> h]

TP == <<"T", "P">>
TQ == <<"T", "Q">>
P1 == <<Txt(<<" ", "p", "1">>)>>
P2 == <<Tag("b"), Txt(<<"p", "2", " ">>), Tag("/b")>>
PEmpty == <<Txt(<<" ">>)>>

\* the page's answer to each title selector
PageTitles ==
    {[k \in 1..NumTitleSelectors |-> NoTag]} \cup
    {[k \in 1..NumTitleSelectors |-> IF k = i THEN TagWith(<<Txt(<<" ">> \o TP)>>) ELSE NoTag] :
        i \in 1..NumTitleSelectors} \cup
    {[k \in 1..NumTitleSelectors |->
        IF k = 1 THEN TagWith(<<>>) ELSE IF k = 4 THEN TagWith(<<Txt(TQ)>>) ELSE NoTag],
     [k \in 1..NumTitleSelectors |->
        IF k = 1 THEN TagWith(<<Txt(TP)>>) ELSE IF k = 2 THEN TagWith(<<Txt(TQ)>>) ELSE NoTag]}

\* the page's answer to each content selector: the paragraphs soup.select gives
PageContents ==
    {[k \in 1..NumContentSelectors |-> <<>>]} \cup
    {[k \in 1..NumContentSelectors |-> IF k = i THEN ps ELSE <<>>] :
        i \in 1..NumContentSelectors, ps \in {<<P1, PEmpty, P2>>, <<PEmpty>>}} \cup
    {[k \in 1..NumContentSelectors |->
        IF k = 1 THEN <<PEmpty>> ELSE IF k = 2 THEN <<P1>> ELSE <<>>],
     [k \in 1..NumContentSelectors |->
        IF k = 1 THEN <<P1>> ELSE IF k = 2 THEN <<P2>> ELSE <<>>]}

\* what requests.get + raise_for_status + BeautifulSoup give: an exception or a page
GetRaises == [raises |-> TRUE, titles |-> <<>>, contents |-> <<>>]
PageOf(t, c) == [raises |-> FALSE, titles |-> t, contents |-> c]
Pages == {PageOf(t, c) : t \in PageTitles, c \in PageContents}

\* the pages explored in a whole run: one with text, one whose paragraphs are empty
RunPages ==
    {PageOf([k \in 1..NumTitleSelectors |-> IF k = 1 THEN TagWith(<<Txt(TP)>>) ELSE NoTag],
            [k \in 1..NumContentSelectors |-> IF k = 2 THEN ps ELSE <<>>]) :
        ps \in {<<P1, PEmpty, P2>>, <<PEmpty>>}}

ScrapeOutcomes == {GetRaises} \cup (IF scope = "run" THEN RunPages ELSE Pages)

-----------------------------------------------------------------------------
(* extract_article_data (cointelegraph.py:351-416; the same code is        *)
(* ultimate_crypto_agent.py:336-401).                                      *)

\* lines 378-383: the first title selector that finds a tag gives the title
PageTitle(p) ==
    IF \E k \in 1..NumTitleSelectors : p.titles[k].found
    THEN LET k == CHOOSE i \in 1..NumTitleSelectors :
                    p.titles[i].found /\ \A j \in 1..(i - 1) : ~p.titles[j].found
         IN  GetText(p.titles[k].html)
    ELSE UntitledArticle

\* lines 386-391: the first content selector that finds paragraphs gives the
\* content: the non-empty texts of its paragraphs, joined by blank lines
PageContent(p) ==
    IF \E k \in 1..NumContentSelectors : p.contents[k] # <<>>
    THEN LET k == CHOOSE i \in 1..NumContentSelectors :
                    p.contents[i] # <<>> /\ \A j \in 1..(i - 1) : p.contents[j] = <<>>
             ps == p.contents[k]
         IN  Join(NonEmpty([i \in 1..Len(ps) |-> GetText(ps[i])]), NLNL)
    ELSE <<>>

\* a mutant of FallbackRecord: the default title of line 378 instead of line 410's
FallbackRecordPageDefault(e, u) ==
    [title |-> IF e.hasTitle THEN e.title ELSE UntitledArticle,
     content |-> IF e.hasSummary /\ e.summary # <<>> THEN GetText(e.summary) ELSE <<>>,
     url |-> u]

\* lines 405-413: the record made of a feed's first entry
FallbackRecord(e, u) ==
    [title |-> IF e.hasTitle THEN e.title ELSE Untitled,
     content |-> IF e.hasSummary /\ e.summary # <<>> THEN GetText(e.summary) ELSE <<>>,
     url |-> u]

\* line 416
DefaultRecord(u) == [title |-> Untitled, content |-> <<>>, url |-> u]

\* a mutant of AfterFeed: the bare except of lines 414-415 left out
AfterFeedUncaught(f, i) ==
    IF f.raises THEN "raised"
    ELSE IF f.entries # <<>> THEN "extracted"
    ELSE IF i < NumFeeds THEN "fallback" ELSE "extracted"

\* a mutant of AfterFeed: only RSS_SOURCES[0] is tried
AfterFeedFirstOnly(f, i) == "extracted"

\* lines 401-416: where the fallback loop goes after parsing feed i
AfterFeed(f, i) ==
    IF ~f.raises /\ f.entries # <<>> THEN "extracted"
    ELSE IF i < NumFeeds THEN "fallback" ELSE "extracted"

NoArt == [title |-> <<>>, content |-> <<>>, url |-> <<>>]

\* an answer of the completion endpoint with message.content None
NoAnswer == [raises |-> FALSE, none |-> TRUE, text |-> <<>>]

\* the state before keyword research and generation
\* no prompt is built yet
NoPrompt ==
    [built |-> FALSE, original_content |-> <<>>, primary_keywords |-> <<>>,
     secondary_keywords |-> <<>>, gaps |-> <<>>]

NotYetGenerated ==
    /\ keywords = <<>>
    /\ insights = [common_topics |-> <<>>, content_gaps |-> <<>>]
    /\ prompt = NoPrompt
    /\ draft = <<>>
    /\ response2 = NoAnswer
    /\ content = <<>>
    /\ calls = <<0, 0>>

\* the file path a run returns: None, or the path of the n-th file written
NoFile == [none |-> TRUE, path |-> 0]
File(n) == [none |-> FALSE, path |-> n]
NoResponse == [html_file |-> NoFile, article_html |-> <<>>]

\* the state before the run ends
NoOutcome ==
    /\ title = <<>>
    /\ body = <<>>
    /\ files = <<>>
    /\ result = NoFile
    /\ error = "none"
    /\ response = NoResponse

\* lines 362-399: the try block, up to the return or the except. requests.get
\* raises MissingSchema for the empty url (the default of line 334).
Scrape ==
    /\ pc = "extract"
    /\ net' = Append(net, "page")
    /\ \E o \in IF url = <<>> THEN {GetRaises} ELSE ScrapeOutcomes :
        IF o.raises
        THEN /\ scrape' = "raised"
             /\ pc' = "fallback"
             /\ fidx' = 1
             /\ art' = art
        ELSE IF PageContent(o) = <<>>
        THEN /\ scrape' = "empty"
             /\ pc' = "fallback"
             /\ fidx' = 1
             /\ art' = art
        ELSE /\ scrape' = "ok"
             /\ pc' = "extracted"
             /\ fidx' = fidx
             /\ art' = [title |-> PageTitle(o), content |-> PageContent(o), url |-> url]
    /\ UNCHANGED <<env, fetched, keywords, insights, prompt, generated, outcome>>

\* lines 401-416: one iteration of the fallback loop, and the return after the last
FallbackFeed ==
    /\ pc = "fallback"
    /\ fidx <= NumFeeds
    /\ net' = Append(net, "feed")
    /\ pc' = AfterFeed(feeds[fidx], fidx)
    /\ IF pc' = "fallback"
       THEN /\ fidx' = fidx + 1
            /\ art' = art
       ELSE /\ fidx' = fidx
            /\ art' = IF ~feeds[fidx].raises /\ feeds[fidx].entries # <<>>
                      THEN FallbackRecord(feeds[fidx].entries[1], url)
                      ELSE DefaultRecord(url)
    /\ UNCHANGED <<env, fetched, scrape, keywords, insights, prompt, generated, outcome>>

\* The callers' candidates: a title and the url handed to extract_article_data
Candidates == {[title |-> t, url |-> u] : t \in {T1, Untitled}, u \in Urls}

\* extract_article_data called alone, for any url and any state of the feeds
InitExtract ==
    /\ pc = "extract"
    /\ scope = "extract"
    /\ script = "cointelegraph"
    /\ entry = "cli"
    /\ MODEL_ID = None
    /\ DEEPSEEK_KEY = None
    /\ sources = RSS_SOURCES
    /\ feeds \in Worlds
    /\ trends = TrendsDown
    /\ quality = NoQuality
    /\ clock = 0
    /\ args = NoArgs
    /\ ret = NoReturn
    /\ server = IdleServer
    /\ fidx = 0
    /\ articles = <<>>
    /\ best \in Candidates
    /\ url = best.url
    /\ scrape = "none"
    /\ art = NoArt
    /\ NotYetGenerated
    /\ NoOutcome
    /\ net = <<>>

NextExtract == Scrape \/ FallbackFeed

SpecExtract == InitExtract /\ [][NextExtract]_vars

-----------------------------------------------------------------------------
(* Claims about extract_article_data, checked under SpecExtract.           *)

\* feed i parses and has at least one entry
Usable(i) == ~feeds[i].raises /\ feeds[i].entries # <<>>
HasUsable == \E i \in 1..NumFeeds : Usable(i)
FirstUsable == CHOOSE i \in 1..NumFeeds : Usable(i) /\ \A j \in 1..(i - 1) : ~Usable(j)
FirstUsableEntry == feeds[FirstUsable].entries[1]
Returned == pc = "extracted"
ScrapeFailed == scrape \in {"raised", "empty"}

\* C1: extract_article_data never raises: whatever the GET, the parse and each
\* feed do, the call goes on until it returns a record {title, content, url} for
\* the url given; when the scrape fails and no feed yields an entry the record
\* is exactly "Untitled", "", url.
C1_NeverRaises ==
    /\ pc \in {"extract", "fallback", "extracted"}
    /\ pc = "fallback" => fidx \in 1..NumFeeds
    /\ Returned =>
        /\ DOMAIN art = {"title", "content", "url"}
        /\ art.url = url
        /\ (ScrapeFailed /\ ~HasUsable) =>
                art = [title |-> Untitled, content |-> <<>>, url |-> url]

\* C1 witness: the GET raised, one feed raised, one was empty, and the call returned
C1_Witness ==
    /\ Returned
    /\ scrape = "raised"
    /\ ~HasUsable
    /\ \E i \in 1..NumFeeds : feeds[i].raises
    /\ \E i \in 1..NumFeeds : ~feeds[i].raises

\* C2 as stated: on a failed extraction the body is the stripped summary of the
\* first entry of RSS_SOURCES[0], no other feed is used, and the title is the
\* title of the article being extracted.
C2_FirstFeedOriginalTitle ==
    (Returned /\ ScrapeFailed) =>
        /\ art.title = best.title
        /\ IF Usable(1)
           THEN art.content = GetText(feeds[1].entries[1].summary)
           ELSE art.content = <<>>

\* C2 amended: on a failed extraction the record is made of the first entry of
\* the first feed, in RSS_SOURCES order, that parses and has entries: the body
\* is its HTML-stripped summary ("" without one) and the title is that entry's
\* own title ("Untitled" without one); with no such feed it is "Untitled", "".
C2_FirstFeedWithEntries ==
    (Returned /\ ScrapeFailed) =>
        IF HasUsable
        THEN /\ art.content = IF FirstUsableEntry.hasSummary
                              THEN GetText(FirstUsableEntry.summary) ELSE <<>>
             /\ art.title = IF FirstUsableEntry.hasTitle
                            THEN FirstUsableEntry.title ELSE Untitled
             /\ art.url = url
        ELSE art = [title |-> Untitled, content |-> <<>>, url |-> url]

\* C2 witness: the first feed gave nothing and a later feed's entry was used
C2_Witness ==
    /\ Returned
    /\ scrape = "empty"
    /\ ~Usable(1)
    /\ HasUsable
    /\ art.content # <<>>
    /\ art.title # best.title

\* C3 as stated: when the GET raises the returned title is "Untitled", whatever
\* the feeds return.
C3_UnreachableUntitled == (Returned /\ scrape = "raised") => art.title = Untitled

\* C3 amended: when the GET raises, the returned title is the title of the
\* first entry of the first feed that has entries, and it is "Untitled" when no
\* feed has entries or that entry has no title.
C3_UnreachableTitle ==
    (Returned /\ scrape = "raised") =>
        art.title = IF HasUsable /\ FirstUsableEntry.hasTitle
                    THEN FirstUsableEntry.title ELSE Untitled

\* C3 witness: the GET raised and the title returned is a feed entry's
C3_Witness ==
    /\ Returned
    /\ scrape = "raised"
    /\ HasUsable
    /\ art.title = T1

\* C3 witness of the other case: the entry used has no title
C3_WitnessUntitled ==
    /\ Returned
    /\ scrape = "raised"
    /\ HasUsable
    /\ ~FirstUsableEntry.hasTitle
    /\ art.title = Untitled

\* C4 as stated: when the GET raises, the body is empty only if every fallback
\* fails: if some feed's first entry has a summary with text, the body returned
\* is not empty.
C4_BodyUnlessAllFail ==
    (Returned /\ scrape = "raised"
        /\ \E i \in 1..NumFeeds :
              /\ Usable(i)
              /\ feeds[i].entries[1].hasSummary
              /\ GetText(feeds[i].entries[1].summary) # <<>>)
    => art.content # <<>>

-----------------------------------------------------------------------------
(* get_latest_articles_from_multiple_sources (cointelegraph.py:323-349).   *)

\* feed.entries[:3] (line 331)
TopEntries == 3

Min(a, b) == IF a <= b THEN a ELSE b

\* lines 332-339: the candidate made of an entry of a source
Article(e, src) ==
    [title |-> IF e.hasTitle THEN e.title ELSE Untitled,
     url |-> IF e.hasLink THEN e.link ELSE <<>>,
     summary |-> IF e.hasSummary THEN e.summary ELSE <<>>,
     source |-> src.name,
     weight |-> src.weight]

\* a mutant of ArticlesOf: every entry of the feed gives a candidate
ArticlesOfAll(f, src) == [i \in 1..Len(f.entries) |-> Article(f.entries[i], src)]

\* lines 330-340: the candidates of the first entries of a feed
ArticlesOf(f, src) ==
    [i \in 1..Min(TopEntries, Len(f.entries)) |-> Article(f.entries[i], src)]

\* a mutant of InsertByWeight: a candidate goes before those of its weight
RECURSIVE InsertByWeightUnstable(_, _)
InsertByWeightUnstable(sorted, a) ==
    IF sorted = <<>> THEN <<a>>
    ELSE IF Head(sorted).weight > a.weight
         THEN <<Head(sorted)>> \o InsertByWeightUnstable(Tail(sorted), a)
         ELSE <<a>> \o sorted

\* list.sort(key=weight, reverse=True): a stable sort, heaviest first
RECURSIVE InsertByWeight(_, _)
InsertByWeight(sorted, a) ==
    IF sorted = <<>> THEN <<a>>
    ELSE IF Head(sorted).weight >= a.weight
         THEN <<Head(sorted)>> \o InsertByWeight(Tail(sorted), a)
         ELSE <<a>> \o sorted

\* a mutant of SortByWeight: the list is left in the order of the loop
SortByWeightUnsorted(as) == as

RECURSIVE SortByWeight(_)
SortByWeight(as) ==
    IF as = <<>> THEN <<>>
    ELSE InsertByWeight(SortByWeight(SubSeq(as, 1, Len(as) - 1)), as[Len(as)])

NoBest == [title |-> <<>>, url |-> <<>>]

-----------------------------------------------------------------------------
(* run_ultimate_agent up to the generation (cointelegraph.py:729-776) and  *)
(* its callers (cointelegraph.py:824-827, main.py:42-44).                  *)

\* cointelegraph.py:824-827: python cointelegraph.py
StartCli ==
    /\ pc = "start"
    /\ entry = "cli"
    /\ IF DEEPSEEK_KEY \in {None, ""} \/ MODEL_ID \in {None, ""}
       THEN /\ pc' = "raised"
            /\ error' = "config"
            /\ fidx' = fidx
       ELSE /\ pc' = "fetch"
            /\ error' = error
            /\ fidx' = 1
    /\ UNCHANGED <<env, fetched, scrape, art, keywords, insights, prompt, generated,
                   title, body, files, result, response, net>>

\* main.py:42-44: POST /generate calls run_ultimate_agent, with no check before it
StartHttp ==
    /\ pc = "start"
    /\ entry = "http"
    /\ pc' = "fetch"
    /\ fidx' = 1
    /\ UNCHANGED <<env, fetched, scrape, art, keywords, insights, prompt, generated, outcome, net>>

\* a mutant of FetchFeed: run_ultimate_agent without the check of lines 735-737,
\* so that line 740 raises IndexError for an empty list
FetchFeedUnchecked ==
    /\ pc = "fetch"
    /\ fidx <= NumFeeds
    /\ net' = Append(net, "feed")
    /\ LET f == feeds[fidx]
           got == IF f.raises THEN articles
                  ELSE articles \o ArticlesOf(f, sources[fidx])
           sorted == SortByWeight(got)
       IN  IF fidx < NumFeeds
           THEN /\ articles' = got
                /\ fidx' = fidx + 1
                /\ UNCHANGED <<pc, best, url, error>>
           ELSE /\ articles' = sorted
                /\ fidx' = fidx
                /\ IF sorted = <<>>
                   THEN /\ pc' = "raised"
                        /\ error' = "index"
                        /\ UNCHANGED <<best, url>>
                   ELSE /\ pc' = "extract"
                        /\ best' = [title |-> sorted[1].title, url |-> sorted[1].url]
                        /\ url' = sorted[1].url
                        /\ error' = error
    /\ UNCHANGED <<env, scrape, art, keywords, insights, prompt, generated,
                   title, body, files, result, response>>

\* cointelegraph.py:327-345: one iteration of the loop over RSS_SOURCES; after
\* the last, the sort (348), the check of run_ultimate_agent (735-737) and the
\* selection (740)
FetchFeed ==
    /\ pc = "fetch"
    /\ fidx <= NumFeeds
    /\ net' = Append(net, "feed")
    /\ LET f == feeds[fidx]
           got == IF f.raises THEN articles
                  ELSE articles \o ArticlesOf(f, sources[fidx])
           sorted == SortByWeight(got)
       IN  IF fidx < NumFeeds
           THEN /\ articles' = got
                /\ fidx' = fidx + 1
                /\ UNCHANGED <<pc, best, url, result>>
           ELSE /\ articles' = sorted
                /\ fidx' = fidx
                /\ IF sorted = <<>>
                   THEN /\ pc' = "done"
                        /\ result' = NoFile
                        /\ UNCHANGED <<best, url>>
                   ELSE /\ pc' = "extract"
                        /\ best' = [title |-> sorted[1].title, url |-> sorted[1].url]
                        /\ url' = sorted[1].url
                        /\ result' = result
    /\ UNCHANGED <<env, scrape, art, keywords, insights, prompt, generated,
                   title, body, files, error, response>>

\* a mutant of CheckExtracted: the run goes on whatever was extracted
CheckExtractedUnchecked ==
    /\ pc = "extracted"
    /\ scope = "run"
    /\ pc' = "keywords"
    /\ UNCHANGED <<env, fidx, fetched, scrape, art, keywords, insights, prompt, generated,
                   outcome, net>>

\* cointelegraph.py:745-747
CheckExtracted ==
    /\ pc = "extracted"
    /\ scope = "run"
    /\ IF art.content = <<>>
       THEN /\ pc' = "done"
            /\ result' = NoFile
       ELSE /\ pc' = "keywords"
            /\ result' = result
    /\ UNCHANGED <<env, fidx, fetched, scrape, art, keywords, insights, prompt, generated,
                   title, body, files, error, response, net>>

-----------------------------------------------------------------------------
(* get_advanced_keywords (cointelegraph.py:258-301). Keywords are numbers: *)
(* 1..15 the static list, 101.. the terms of the trend service.            *)

\* trending_topics[:8] (line 271)
NumTrendTopics == 8
\* high_value_keywords (lines 281-297)
NumHighValue == 15
\* list(set(keywords))[:20] (line 301)
KeywordCap == 20
\* keywords[:10] (line 753)
NumPrimary == 10

HighValueKeywords == [i \in 1..NumHighValue |-> i]

\* the trend service in a whole run: it fails at once, or answers every topic
TrendRuns ==
    {TrendsDown,
     [queries |-> NumTrendTopics, terms |-> <<101, 102, 101, 103, 104, 105, 106>>,
      raised |-> FALSE]}

Range(f) == {f[i] : i \in DOMAIN f}

\* the elements of a set of numbers, smallest first
RECURSIVE Ascending(_)
Ascending(S) ==
    IF S = {} THEN <<>>
    ELSE LET m == CHOOSE x \in S : \A y \in S : x <= y
         IN  <<m>> \o Ascending(S \ {m})

Reverse(q) == [i \in 1..Len(q) |-> q[Len(q) + 1 - i]]

\* list(set(keywords)): the order of a set's elements is not specified; two orders
SetOrders(S) == {Ascending(S), Reverse(Ascending(S))}

Take(q, n) == SubSeq(q, 1, Min(n, Len(q)))

\* a mutant of KeywordLists: the list is cut without the pass through a set
KeywordListsNoSet(run) == {Take(run.terms \o HighValueKeywords, KeywordCap)}

\* line 298-301: the lists get_advanced_keywords may return after a trend run
KeywordLists(run) ==
    {Take(q, KeywordCap) : q \in SetOrders(Range(run.terms \o HighValueKeywords))}

RECURSIVE Repeat(_, _)
Repeat(x, n) == IF n = 0 THEN <<>> ELSE <<x>> \o Repeat(x, n - 1)

\* cointelegraph.py:751 (get_advanced_keywords)
ResearchKeywords ==
    /\ pc = "keywords"
    /\ net' = net \o Repeat("trends", trends.queries)
    /\ keywords' \in KeywordLists(trends)
    /\ pc' = "competitors"
    /\ UNCHANGED <<env, fidx, fetched, scrape, art, insights, prompt, generated, outcome>>

-----------------------------------------------------------------------------
(* analyze_competitor_content (cointelegraph.py:201-253).                  *)

\* competitor_sites[:3] (line 220)
NumCompetitorSites == 3
\* len(title_text) > 10 (line 232)
MinTopicLen == 10

\* the static suggestions of lines 240-246, as numbers
ContentGaps == <<1, 2, 3, 4, 5>>

HeadingLong == <<"h", "e", "a", "d", "i", "n", "g", " ", "o", "n", "e">>
HeadingShort == <<"t", "e", "n", " ", "c", "h", "a", "r", "s", ".">>

\* what requests.get of a competitor's homepage does: raise, or give headings
SiteRaises == [raises |-> TRUE, headings |-> <<>>]
SiteOf(hs) == [raises |-> FALSE, headings |-> hs]
SiteOutcomes == {SiteRaises, SiteOf(<<HeadingShort, <<" ">> \o HeadingLong>>)}

\* lines 229-233: the headings of a page that are kept
RECURSIVE Topics(_)
Topics(hs) ==
    IF hs = <<>> THEN <<>>
    ELSE LET t == Strip(Head(hs))
         IN  IF t # <<>> /\ Len(t) > MinTopicLen
             THEN <<t>> \o Topics(Tail(hs))
             ELSE Topics(Tail(hs))

\* a variant of AllTopics in which the first failure ends the loop
RECURSIVE AllTopicsUntilFailure(_)
AllTopicsUntilFailure(sites) ==
    IF sites = <<>> \/ Head(sites).raises THEN <<>>
    ELSE Topics(Take(Head(sites).headings, 10)) \o AllTopicsUntilFailure(Tail(sites))

\* lines 220-237: the loop over competitor_sites[:3]; the except of line 235
\* catches what the body raises and the loop goes on with the next site
RECURSIVE AllTopics(_)
AllTopics(sites) ==
    IF sites = <<>> THEN <<>>
    ELSE (IF Head(sites).raises THEN <<>> ELSE Topics(Take(Head(sites).headings, 10)))
         \o AllTopics(Tail(sites))

\* a variant of AnalyzeCompetitors after which the generation starts at once
AnalyzeCompetitorsThenGenerate ==
    /\ pc = "competitors"
    /\ \E sites \in [1..NumCompetitorSites -> SiteOutcomes] :
        insights' = [common_topics |-> AllTopics(sites), content_gaps |-> ContentGaps]
    /\ net' = net \o Repeat("competitor", NumCompetitorSites)
    /\ pc' = "generate"
    /\ UNCHANGED <<env, fidx, fetched, scrape, art, keywords, prompt, generated, outcome>>

\* cointelegraph.py:764-767 (ENABLE_COMPETITOR_ANALYSIS is True, line 77)
AnalyzeCompetitors ==
    /\ pc = "competitors"
    /\ \E sites \in [1..NumCompetitorSites -> SiteOutcomes] :
        insights' = [common_topics |-> AllTopics(sites), content_gaps |-> ContentGaps]
    /\ net' = net \o Repeat("competitor", NumCompetitorSites)
    /\ pc' = "prompt"
    /\ UNCHANGED <<env, fidx, fetched, scrape, art, keywords, prompt, generated, outcome>>

-----------------------------------------------------------------------------
(* build_advanced_prompt (cointelegraph.py:421-492).                       *)

\* line 424, keywords[:8], and line 425, keywords[8:15]
PrimaryEnd == 8
SecondaryEnd == 15

\* line 488: original_content[:500]
PromptContentMax == 500

\* line 444: gaps[:3]
PromptGaps == 3

\* Python's q[a:b]
Slice(q, a, b) == SubSeq(q, a + 1, Min(b, Len(q)))

\* a variant of PrimaryKeywords: the whole list of the researcher
PrimaryKeywordsAll == keywords

\* primary_keywords (line 753)
PrimaryKeywords == Take(keywords, NumPrimary)

\* lines 421-492: what the prompt holds of the arguments (market_data is {},
\* line 759, and competitor_insights is the non-empty record of line 767)
build_advanced_prompt(original_content, kws, competitor_insights) ==
    [built |-> TRUE,
     original_content |-> Take(original_content, PromptContentMax),
     primary_keywords |-> Slice(kws, 0, PrimaryEnd),
     secondary_keywords |-> Slice(kws, PrimaryEnd, SecondaryEnd),
     gaps |-> Take(competitor_insights.content_gaps, PromptGaps)]

\* cointelegraph.py:769-776
BuildPrompt ==
    /\ pc = "prompt"
    /\ prompt' = build_advanced_prompt(art.content, PrimaryKeywords, insights)
    /\ pc' = "generate"
    /\ UNCHANGED <<env, fidx, fetched, scrape, art, keywords, insights, generated, outcome, net>>

-----------------------------------------------------------------------------
(* The completion endpoint: deepseek.chat.completions.create.              *)

LinePlain == <<"A", "b">>
LineH1 == <<"#", " ", "G", "h">>
LineHeadline == <<"H", "e", "a", "d", "l", "i", "n", "e", ":", " ", "T", "i">>
LineBoldHeadline ==
    <<"*", "*", "H", "E", "A", "D", "L", "I", "N", "E", ":", "*", "*", " ", "T", "j", "*">>
LineMarkupOnly == <<"h", "e", "a", "d", "l", "i", "n", "e", ":", " ", "*", "*">>
LineBareMarker == <<"H", "e", "a", "d", "l", "i", "n", "e", ":">>
LineTabMarker == <<"H", "e", "a", "d", "l", "i", "n", "e", ":", "\t", "*">>

\* the texts of at most n lines, each line one of ls
TextsOf(ls, n) == {Join(t, NL) : t \in UNION {[1..k -> ls] : k \in 1..n}}

\* what a call does: raise, or answer with message.content None or a text
Raised == [raises |-> TRUE, none |-> FALSE, text |-> <<>>]
Absent == NoAnswer
Reply(t) == [raises |-> FALSE, none |-> FALSE, text |-> t]

\* the answers of stage 1 and of stage 2 explored when the generation is explored
DraftLines == {<<>>, LineH1, LineHeadline}
ReplyLines ==
    {<<>>, LinePlain, LineHeadline, LineBoldHeadline, LineMarkupOnly, LineBareMarker, LineTabMarker}
DraftReplies == {Raised, Absent} \cup {Reply(t) : t \in TextsOf(DraftLines, MaxDraftLines)}
FinalReplies == {Raised, Absent} \cup {Reply(t) : t \in TextsOf(ReplyLines, MaxLines)}

\* the answers explored in a whole run
RunDraftReplies ==
    {Raised, Absent, Reply(<<" ">>), Reply(Join(<<LineH1, <<>>, LinePlain>>, NL))}
RunFinalReplies ==
    {Raised, Absent, Reply(<<" ", "\n">>),
     Reply(Join(<<LineHeadline, LinePlain, LinePlain>>, NL)),
     Reply(Join(<<LinePlain, LineBareMarker>>, NL))}

\* the scopes explored with these answers
RunScopes == {"run", "export", "enhance", "server"}

Stage1Replies == IF scope \in RunScopes THEN RunDraftReplies ELSE DraftReplies
Stage2Replies == IF scope \in RunScopes THEN RunFinalReplies ELSE FinalReplies

-----------------------------------------------------------------------------
(* generate_advanced_content (cointelegraph.py:494-553,                    *)
(* ultimate_crypto_agent.py:475-548).                                      *)

H1Prefix == <<"#", " ">>
H2Prefix == <<"#", "#", " ">>

Drop(q, n) == SubSeq(q, n + 1, Len(q))

\* cointelegraph.py:518-521
CleanLine(line) ==
    IF StartsWith(line, H1Prefix) THEN Drop(line, 2)
    ELSE IF StartsWith(line, H2Prefix) THEN H2Prefix \o Drop(line, 3)
    ELSE line

RECURSIVE CleanLines(_)
CleanLines(lines) ==
    IF lines = <<>> THEN <<>>
    ELSE LET line == Strip(Head(lines))
         IN  IF line # <<>>
             THEN <<CleanLine(line)>> \o CleanLines(Tail(lines))
             ELSE CleanLines(Tail(lines))

\* cointelegraph.py:509-524: the draft made of the answer of stage 1
CleanDraft(r) ==
    LET text == IF ~r.none /\ r.text # <<>> THEN Strip(r.text) ELSE <<>>
    IN  Join(CleanLines(Split(text, "\n")), NLNL)

\* cointelegraph.py:552: final_content, given the answer of stage 2 and the draft
Paraphrased(r, d) ==
    IF ~r.none /\ r.text # <<>> THEN Strip(r.text) ELSE d

\* cointelegraph.py:496-497 and 541-542
ModelIdMissing == MODEL_ID \in {None, ""}

\* a mutant of Stage1Calls: the call is tried again
Stage1CallsRetry(r) == IF r.raises THEN 2 ELSE 1

\* the calls of the completion endpoint lines 499-507 make
Stage1Calls(r) == 1

\* cointelegraph.py:494-524 (ultimate_crypto_agent.py:475-504, which has no
\* check of MODEL_ID: line 53 sets it)
Stage1 ==
    /\ pc = "generate"
    /\ IF script = "cointelegraph" /\ ModelIdMissing
       THEN /\ pc' = "raised"
            /\ error' = "config"
            /\ UNCHANGED <<draft, calls, net>>
       ELSE \E r \in Stage1Replies :
            /\ net' = net \o Repeat("completion", Stage1Calls(r))
            /\ calls' = [calls EXCEPT ![1] = @ + Stage1Calls(r)]
            /\ IF r.raises
               THEN /\ pc' = "raised"
                    /\ error' = "api"
                    /\ draft' = draft
               ELSE /\ pc' = "stage2"
                    /\ error' = error
                    /\ draft' = CleanDraft(r)
    /\ UNCHANGED <<env, fidx, fetched, scrape, art, keywords, insights, prompt, response2, content,
                   title, body, files, result, response>>

\* cointelegraph.py:526-553: the paraphrase
Stage2 ==
    /\ pc = "stage2"
    /\ script = "cointelegraph"
    /\ IF ModelIdMissing
       THEN /\ pc' = "raised"
            /\ error' = "config"
            /\ UNCHANGED <<response2, content, calls, net>>
       ELSE \E r \in Stage2Replies :
            /\ net' = Append(net, "completion")
            /\ calls' = [calls EXCEPT ![2] = @ + 1]
            /\ response2' = r
            /\ IF r.raises
               THEN /\ pc' = "raised"
                    /\ error' = "api"
                    /\ content' = content
               ELSE /\ pc' = "generated"
                    /\ error' = error
                    /\ content' = Paraphrased(r, draft)
    /\ UNCHANGED <<env, fidx, fetched, scrape, art, keywords, insights, prompt, draft,
                   title, body, files, result, response>>

\* ENABLE_CONTENT_SCORING (ultimate_crypto_agent.py:76)
ENABLE_CONTENT_SCORING == TRUE
\* current_score < 70 (ultimate_crypto_agent.py:514)
EnhanceBelow == 70

Analyses == {NoMetrics} \cup {Metrics(q) : q \in {40, 69, 70, 85}}

\* the analyses explored with every answer of the completion endpoint: none,
\* a score that needs no enhancement, an enhancement that raises the score, one
\* that does not
GenerateQualities ==
    {NoQuality,
     [draft |-> Metrics(85), enhanced |-> NoMetrics],
     [draft |-> Metrics(40), enhanced |-> Metrics(85)],
     [draft |-> Metrics(69), enhanced |-> Metrics(69)]}

\* a mutant of Enhanced: a score that is not lower is enough
EnhancedIfNotLower(r, d, q, q2) ==
    LET enhanced == IF ~r.none /\ r.text # <<>> THEN Strip(r.text) ELSE d
    IN  IF q2.quality_score >= q.quality_score THEN enhanced ELSE d

\* ultimate_crypto_agent.py:543-545
Enhanced(r, d, q, q2) ==
    LET enhanced == IF ~r.none /\ r.text # <<>> THEN Strip(r.text) ELSE d
    IN  IF q2.quality_score > q.quality_score THEN enhanced ELSE d

\* ultimate_crypto_agent.py:506-548: the quality enhancement
Enhance ==
    /\ pc = "stage2"
    /\ script = "ultimate"
    /\ LET q == quality.draft IN
        IF ENABLE_CONTENT_SCORING /\ ~q.empty /\ q.quality_score < EnhanceBelow
        THEN \E r \in Stage2Replies :
             /\ net' = Append(net, "completion")
             /\ calls' = [calls EXCEPT ![2] = @ + 1]
             /\ response2' = r
             /\ IF r.raises
                THEN /\ pc' = "raised"
                     /\ error' = "api"
                     /\ content' = content
                ELSE /\ pc' = "generated"
                     /\ error' = error
                     /\ content' = Enhanced(r, draft, q, quality.enhanced)
        ELSE /\ pc' = "generated"
             /\ content' = draft
             /\ UNCHANGED <<response2, calls, net, error>>
    /\ UNCHANGED <<env, fidx, fetched, scrape, art, keywords, insights, prompt, draft,
                   title, body, files, result, response>>

-----------------------------------------------------------------------------
(* The end of run_ultimate_agent (cointelegraph.py:780-822,                *)
(* ultimate_crypto_agent.py:774-805) and of POST /generate (main.py:45-52).*)

Uppercase == <<"A", "B", "C", "D", "E", "F", "G", "H", "I", "J", "K", "L", "M",
               "N", "O", "P", "Q", "R", "S", "T", "U", "V", "W", "X", "Y", "Z">>
Lowercase == <<"a", "b", "c", "d", "e", "f", "g", "h", "i", "j", "k", "l", "m",
               "n", "o", "p", "q", "r", "s", "t", "u", "v", "w", "x", "y", "z">>

\* str.lower()
Lower(s) ==
    [i \in 1..Len(s) |->
        IF \E k \in 1..26 : Uppercase[k] = s[i]
        THEN Lowercase[CHOOSE k \in 1..26 : Uppercase[k] = s[i]]
        ELSE s[i]]

HeadlineMarker == <<"h", "e", "a", "d", "l", "i", "n", "e", ":">>
BoldHeadlineMarker == <<"*", "*">> \o HeadlineMarker \o <<"*", "*">>

\* cointelegraph.py:789
IsHeadline(line) ==
    StartsWith(Lower(line), BoldHeadlineMarker) \/ StartsWith(Lower(line), HeadlineMarker)

\* line.split(':', 1)[-1]
AfterColon(line) ==
    IF \E i \in 1..Len(line) : line[i] = ":"
    THEN Drop(line, CHOOSE i \in 1..Len(line) :
                        line[i] = ":" /\ \A j \in 1..(i - 1) : line[j] # ":")
    ELSE line

\* cointelegraph.py:791
HeadlineText(line) == StripChars(AfterColon(line), {" ", "*"})

\* cointelegraph.py:788-793: the loop, with title None or "" as <<>>
RECURSIVE ScanLines(_, _, _)
ScanLines(lines, t, bodyLines) ==
    IF lines = <<>> THEN [title |-> t, body_lines |-> bodyLines]
    ELSE IF t = <<>> /\ IsHeadline(Head(lines))
         THEN ScanLines(Tail(lines), HeadlineText(Head(lines)), bodyLines)
         ELSE ScanLines(Tail(lines), t, Append(bodyLines, Head(lines)))

\* a mutant of SplitTitle: no fallback when a headline line was found
SplitTitleNoFallback(c) ==
    LET lines == NonEmpty(StripEach(Split(c, "\n")))
        scan == ScanLines(lines, <<>>, <<>>)
    IN  IF scan.body_lines = lines
        THEN [title |-> IF lines # <<>> THEN lines[1] ELSE Untitled,
              body |-> IF Len(lines) > 1 THEN Join(Tail(lines), NLNL) ELSE <<>>]
        ELSE [title |-> scan.title, body |-> Join(scan.body_lines, NLNL)]

\* a mutant of SplitTitle: the title is the first line, as in ultimate_crypto_agent.py
SplitTitleFirstLine(c) ==
    LET lines == NonEmpty(StripEach(Split(c, "\n")))
    IN  [title |-> IF lines # <<>> THEN lines[1] ELSE Untitled,
         body |-> IF Len(lines) > 1 THEN Join(Tail(lines), NLNL) ELSE <<>>]

\* cointelegraph.py:785-798: title and body_content of the generated text
SplitTitle(c) ==
    LET lines == NonEmpty(StripEach(Split(c, "\n")))
        scan == ScanLines(lines, <<>>, <<>>)
    IN  IF scan.title = <<>>
        THEN [title |-> IF lines # <<>> THEN lines[1] ELSE Untitled,
              body |-> IF Len(lines) > 1 THEN Join(Tail(lines), NLNL) ELSE <<>>]
        ELSE [title |-> scan.title, body |-> Join(scan.body_lines, NLNL)]

\* ultimate_crypto_agent.py:779-781
SplitFirstLine(c) ==
    LET lines == Split(c, "\n")
    IN  [title |-> Strip(lines[1]), body |-> Join(Tail(lines), NLNL)]

\* cointelegraph.py:780-782: whether the run goes on to the export
Exports(c) == Strip(c) # <<>>

\* cointelegraph.py:561-562: the name of the file, made of the time in seconds
FileName == clock

\* cointelegraph.py:707-708: open(fname, 'w') and write: the file is created,
\* or the content of the file of that name is replaced
WriteFile(fs, f) ==
    IF \E i \in 1..Len(fs) : fs[i].name = f.name
    THEN [i \in 1..Len(fs) |-> IF fs[i].name = f.name THEN f ELSE fs[i]]
    ELSE Append(fs, f)

\* the place of the file of a name among the files
PathOf(fs, name) == CHOOSE i \in 1..Len(fs) : fs[i].name = name

\* cointelegraph.py:780-822: the check of the generated text, the split, the
\* export (558-709: the title is stripped, the file is written) and the return
Finish ==
    /\ pc = "generated"
    /\ pc' = "done"
    /\ IF ~Exports(content)
       THEN /\ result' = NoFile
            /\ UNCHANGED <<title, body, files>>
       ELSE LET split == IF script = "cointelegraph"
                         THEN SplitTitle(content) ELSE SplitFirstLine(content)
            IN  /\ title' = split.title
                /\ body' = split.body
                /\ files' = WriteFile(files, [name |-> FileName,
                                              title |-> Strip(split.title),
                                              body |-> split.body,
                                              keywords |-> PrimaryKeywords])
                /\ result' = File(PathOf(files', FileName))
    /\ UNCHANGED <<env, fidx, fetched, scrape, art, keywords, insights, prompt, generated,
                   error, response, net>>

\* main.py:45-52: the response of POST /generate after run_ultimate_agent returned
Respond ==
    /\ pc = "done"
    /\ entry = "http"
    /\ pc' = "responded"
    /\ response' = [html_file |-> result,
                    article_html |-> IF ~result.none THEN files[result.path].body ELSE <<>>]
    /\ UNCHANGED <<env, fidx, fetched, scrape, art, keywords, insights, prompt, generated,
                   title, body, files, result, error, net>>

-----------------------------------------------------------------------------
(* The specifications.                                                     *)

\* the feeds explored in a whole run
RunFeeds ==
    {w \in [1..NumFeeds -> {FeedRaises, FeedOf(<<EntryA, EntryF>>), FeedOf(<<EntryB>>),
                            FeedOf(<<EntryC>>)}] :
        \A i \in 2..NumFeeds : w[i] \in {FeedRaises, FeedOf(<<EntryA, EntryF>>)}}

\* a whole run of cointelegraph.py, from the command line or from POST /generate.
\* main.py imports cointelegraph.py, whose line 99 makes the client of the key.
Init ==
    /\ pc = "start"
    /\ scope = "run"
    /\ script = "cointelegraph"
    /\ entry \in {"cli", "http"}
    /\ MODEL_ID \in {None, "", "model"}
    /\ DEEPSEEK_KEY \in {None, "key"}
    /\ entry = "http" => DEEPSEEK_KEY # None
    /\ sources = RSS_SOURCES
    /\ feeds \in RunFeeds
    /\ trends \in TrendRuns
    /\ quality = NoQuality
    /\ clock = 0
    /\ args = NoArgs
    /\ ret = NoReturn
    /\ server = IdleServer
    /\ fidx = 0
    /\ articles = <<>>
    /\ best = NoBest
    /\ url = <<>>
    /\ scrape = "none"
    /\ art = NoArt
    /\ NotYetGenerated
    /\ NoOutcome
    /\ net = <<>>

Next ==
    \/ StartCli
    \/ StartHttp
    \/ FetchFeed
    \/ Scrape
    \/ FallbackFeed
    \/ CheckExtracted
    \/ ResearchKeywords
    \/ AnalyzeCompetitors
    \/ BuildPrompt
    \/ Stage1
    \/ Stage2
    \/ Finish
    \/ Respond

Spec == Init /\ [][Next]_vars

\* a run of either script from the generation on, for any answers of the
\* completion endpoint
InitGenerate ==
    /\ pc = "generate"
    /\ scope = "generate"
    /\ script \in {"cointelegraph", "ultimate"}
    /\ entry = "cli"
    /\ MODEL_ID = "model"
    /\ DEEPSEEK_KEY = "key"
    /\ sources = RSS_SOURCES
    /\ feeds = [i \in 1..NumFeeds |-> FeedOf(<<EntryA>>)]
    /\ trends = TrendsDown
    /\ quality \in (IF script = "ultimate" THEN GenerateQualities ELSE {NoQuality})
    /\ clock = 0
    /\ args = NoArgs
    /\ ret = NoReturn
    /\ server = IdleServer
    /\ fidx = NumFeeds
    /\ articles = ArticlesOf(feeds[1], RSS_SOURCES[1])
    /\ best = [title |-> T1, url |-> U1]
    /\ url = U1
    /\ scrape = "raised"
    /\ art = FallbackRecord(EntryA, U1)
    /\ keywords = HighValueKeywords
    /\ insights = [common_topics |-> <<>>, content_gaps |-> ContentGaps]
    /\ prompt = build_advanced_prompt(art.content, PrimaryKeywords, insights)
    /\ draft = <<>>
    /\ response2 = NoAnswer
    /\ content = <<>>
    /\ calls = <<0, 0>>
    /\ NoOutcome
    /\ net = <<>>

NextGenerate == Stage1 \/ Stage2 \/ Enhance \/ Finish

SpecGenerate == InitGenerate /\ [][NextGenerate]_vars

-----------------------------------------------------------------------------
(* The generation and the export: what the two stages and the title rule   *)
(* promise.                                                                *)

\* generate_advanced_content returned
Generated == pc \in {"generated", "done", "responded"}

\* the first completion call returned
Stage1Returned == pc \in {"stage2", "generated", "done", "responded"}

\* an answer without text: absent, empty or whitespace only
Blank(r) == r.none \/ Strip(r.text) = <<>>

\* C5: the answer of stage 2 replaces the draft exactly when it is not
\* absent, empty or whitespace only: after a blank answer the function
\* returns the cleaned draft of stage 1 unchanged, after any other answer it
\* returns that answer stripped.
C5_BlankKeepsDraft ==
    (script = "cointelegraph" /\ Generated) =>
        content = IF Blank(response2) THEN draft ELSE Strip(response2.text)

\* C6: when the draft of stage 1 is empty the run is a failure and exports
\* no file.
C6_EmptyDraftNoExport ==
    (Stage1Returned /\ draft = <<>>) => (files = <<>> /\ result = NoFile)

\* C7: with MODEL_ID unset or empty the configuration error is raised before
\* any network call, whichever way the run was started.
C7_ConfigErrorBeforeNetwork ==
    (ModelIdMissing /\ error = "config") => net = <<>>

\* the completion calls among the network calls of the run
Completions == Len(SelectSeq(net, LAMBDA c : c = "completion"))

\* C8: an error of a completion call ends the run uncaught; each stage calls
\* the endpoint at most once, never again after an error, stage 2 only after
\* stage 1 returned, and a run ended by such an error has written no file.
C8_NoRetryNoExport ==
    /\ calls[1] <= 1
    /\ calls[2] <= 1
    /\ Completions = calls[1] + calls[2]
    /\ (calls[2] > 0 =>
            /\ calls[1] = 1
            /\ pc \in {"generated", "done", "responded", "raised"}
            /\ (pc = "raised" => response2.raises))
    /\ (error = "api" =>
            /\ pc = "raised"
            /\ files = <<>>
            /\ result = NoFile
            /\ response = NoResponse)

\* C8: the second completion call raised after the first returned
C8_Witness == pc = "raised" /\ error = "api" /\ calls = <<1, 1>>

\* the non-empty stripped lines of the generated text
ContentLines == NonEmpty(StripEach(Split(content, "\n")))

\* the lines of ls at the indexes in S, in order
LinesAt(ls, S) == [j \in 1..Cardinality(S) |-> ls[Ascending(S)[j]]]

\* the indexes of the lines that start with the headline marker
MarkerLines == {i \in 1..Len(ContentLines) : IsHeadline(ContentLines[i])}

\* the indexes of the marker lines that have text after the colon
TitledLines ==
    {i \in MarkerLines : StripChars(AfterColon(ContentLines[i]), {" ", "*"}) # <<>>}

\* the run of cointelegraph.py exported the generated text
Exported == script = "cointelegraph" /\ pc = "done" /\ files # <<>>

\* C9: the first line that starts with the headline marker gives the title
\* (the text after the colon without spaces and asterisks) and is left out
\* of the body; without such a line the first non-empty line is the title
\* and the other non-empty lines are the body.
C9_FirstMarkerLine ==
    Exported =>
        IF MarkerLines # {}
        THEN LET k == Ascending(MarkerLines)[1]
             IN  /\ title = StripChars(AfterColon(ContentLines[k]), {" ", "*"})
                 /\ body = Join(LinesAt(ContentLines, (1..Len(ContentLines)) \ {k}), NLNL)
        ELSE /\ title = ContentLines[1]
             /\ body = Join(Tail(ContentLines), NLNL)

\* C9: the first marker line that has text after the colon gives the title;
\* it and the marker lines before it are left out of the body; when no
\* marker line has text the first non-empty line, marker or not, is the
\* title and all the other non-empty lines are the body.
C9_FirstTitledMarkerLine ==
    Exported =>
        IF TitledLines # {}
        THEN LET k == Ascending(TitledLines)[1]
             IN  /\ title = StripChars(AfterColon(ContentLines[k]), {" ", "*"})
                 /\ body = Join(LinesAt(ContentLines,
                                        {i \in 1..Len(ContentLines) :
                                            ~(i \in MarkerLines /\ i <= k)}), NLNL)
        ELSE /\ title = ContentLines[1]
             /\ body = Join(Tail(ContentLines), NLNL)

\* C9: a text exported whose first marker line has no text and whose title
\* comes from a later marker line
C9_Witness ==
    /\ Exported
    /\ TitledLines # {}
    /\ MarkerLines # TitledLines
    /\ Ascending(MarkerLines)[1] < Ascending(TitledLines)[1]

\* C9: a text exported whose only marker lines have no text
C9_WitnessFallback == Exported /\ MarkerLines # {} /\ TitledLines = {}

\* C10: the title handed to the exporter is never empty, in either script,
\* whatever non-blank text the generation returned.
C10_TitleNeverEmpty ==
    (pc = "done" /\ files # <<>>) => (title # <<>> /\ title # None)

\* C10: a text exported whose first line is a headline marker with nothing
\* after it
C10_Witness ==
    /\ pc = "done"
    /\ files # <<>>
    /\ script = "cointelegraph"
    /\ ContentLines[1] = LineBareMarker

\* C10: a text exported by ultimate_crypto_agent.py
C10_WitnessUltimate == pc = "done" /\ files # <<>> /\ script = "ultimate"

-----------------------------------------------------------------------------
(* The exported file.                                                      *)

\* C11: whenever a run exports a file, the title and the body written to it
\* are non-empty strings, for every non-blank text the generation returned.
C11_TitleAndBodyNonEmpty ==
    (script = "cointelegraph" /\ pc = "done") =>
        \A i \in 1..Len(files) : files[i].title # <<>> /\ files[i].body # <<>>

-----------------------------------------------------------------------------
(* get_latest_articles_from_multiple_sources called alone                  *)
(* (cointelegraph.py:323-349), for any weights of the configured sources   *)
(* and any state of the feeds.                                             *)

\* most entries a feed holds when the fetcher is explored alone
MaxFetched == 4

\* the entries of such a feed, in feed order
FetchEntries == <<EntryA, EntryF, EntryB, EntryC, EntryD, EntryF, EntryA>>

FetchOutcomes ==
    {FeedRaises} \cup
    {FeedOf(SubSeq(FetchEntries, 1, k)) : k \in 0..Min(MaxFetched, Len(FetchEntries))}

\* the weights a source may be configured with, in tenths
Weights == {7, 8, 10}

\* RSS_SOURCES with any weights
SourceLists ==
    {[i \in 1..NumFeeds |-> [name |-> RSS_SOURCES[i].name, weight |-> w[i]]] :
        w \in [1..NumFeeds -> Weights]}

InitFetch ==
    /\ pc = "fetch"
    /\ scope = "fetch"
    /\ script = "cointelegraph"
    /\ entry = "cli"
    /\ MODEL_ID = "model"
    /\ DEEPSEEK_KEY = "key"
    /\ sources \in SourceLists
    /\ feeds \in [1..NumFeeds -> FetchOutcomes]
    /\ trends = TrendsDown
    /\ quality = NoQuality
    /\ clock = 0
    /\ args = NoArgs
    /\ ret = NoReturn
    /\ server = IdleServer
    /\ fidx = 1
    /\ articles = <<>>
    /\ best = NoBest
    /\ url = <<>>
    /\ scrape = "none"
    /\ art = NoArt
    /\ NotYetGenerated
    /\ NoOutcome
    /\ net = <<>>

NextFetch == FetchFeed

SpecFetch == InitFetch /\ [][NextFetch]_vars

\* all_articles before the sort of line 348: the candidates of the feeds 1..n
\* that did not raise, in the order of the loop
RECURSIVE CollectedUpTo(_)
CollectedUpTo(n) ==
    IF n = 0 THEN <<>>
    ELSE CollectedUpTo(n - 1)
         \o (IF feeds[n].raises THEN <<>> ELSE ArticlesOf(feeds[n], sources[n]))

Collected == CollectedUpTo(NumFeeds)

\* get_latest_articles_from_multiple_sources returned
Fetched == pc # "fetch" /\ pc # "start" /\ pc # "raised"

\* the candidates of weight w in a list, in the order of the list
OfWeight(as, w) == SelectSeq(as, LAMBDA a : a.weight = w)

Descending(as) == \A i, j \in 1..Len(as) : i < j => as[i].weight >= as[j].weight

\* C13 as stated: whenever at least one feed is fetched without a failure, the
\* list returned is not empty and is sorted by descending weight.
C13_ReachableNonEmpty ==
    (scope = "fetch" /\ Fetched /\ \E i \in 1..NumFeeds : ~feeds[i].raises) =>
        (articles # <<>> /\ Descending(articles))

\* C13 amended: the list returned is sorted by descending weight, and it is
\* not empty exactly when at least one feed is parsed without an exception
\* and holds at least one entry; a feed that is fetched but holds no entry
\* contributes nothing.
C13_NonEmptyIffEntries ==
    (scope = "fetch" /\ Fetched) =>
        /\ Descending(articles)
        /\ (articles # <<>>) <=> (\E i \in 1..NumFeeds : Usable(i))

\* C13: a feed was fetched without a failure, no feed held an entry, and the
\* list returned is empty
C13_Witness ==
    /\ scope = "fetch"
    /\ Fetched
    /\ \E i \in 1..NumFeeds : ~feeds[i].raises
    /\ \E i \in 1..NumFeeds : feeds[i].raises
    /\ articles = <<>>

\* C13: a list of several weights returned, the lightest source first in the loop
C13_WitnessSorted ==
    /\ scope = "fetch"
    /\ Fetched
    /\ Len(articles) > 1
    /\ sources[1].weight < sources[NumFeeds].weight
    /\ Usable(1)
    /\ Usable(NumFeeds)

\* the candidates of source i in a list, in the order of the list
OfSource(as, i) == SelectSeq(as, LAMBDA a : a.source = sources[i].name)

\* C14: a feed whose fetch fails never fails the fetch as a whole: it is
\* skipped, every other feed is still fetched, and the list returned holds
\* the first entries, three at most, of each feed that did not fail and no
\* entry of a feed that failed.
C14_FailingFeedSkipped ==
    scope = "fetch" =>
        /\ pc # "raised"
        /\ error = "none"
        /\ Fetched =>
            /\ Len(net) = NumFeeds
            /\ \A i \in 1..NumFeeds :
                  OfSource(articles, i) =
                      IF feeds[i].raises THEN <<>>
                      ELSE [k \in 1..(IF Len(feeds[i].entries) < TopEntries
                                      THEN Len(feeds[i].entries) ELSE TopEntries) |->
                                Article(feeds[i].entries[k], sources[i])]

\* C14: the first feed failed, the next held more than three entries, the last
\* fewer, and the list was returned
C14_Witness ==
    /\ scope = "fetch"
    /\ Fetched
    /\ feeds[1].raises
    /\ Len(feeds[2].entries) > TopEntries
    /\ Len(feeds[NumFeeds].entries) \in 1..(TopEntries - 1)
    /\ Len(articles) = TopEntries + Len(feeds[NumFeeds].entries)

-----------------------------------------------------------------------------
(* The failures of a whole run (checked under Spec).                       *)

\* the fetch of every feed fails
AllFeedsFail == \A i \in 1..NumFeeds : feeds[i].raises

\* the run has left the loop over the feeds
AfterFetch == pc \notin {"start", "fetch"}

\* C15: if every feed fails the list of candidates is empty and the run ends
\* there: run_ultimate_agent returns no file path, raises nothing, and has
\* made no extraction, keyword research, completion call or file write.
C15_NoFeedsTerminal ==
    (scope = "run" /\ AllFeedsFail) =>
        /\ articles = <<>>
        /\ pc \in {"start", "fetch", "raised", "done", "responded"}
        /\ pc = "raised" => (error = "config" /\ net = <<>>)
        /\ \A k \in 1..Len(net) : net[k] = "feed"
        /\ scrape = "none"
        /\ art = NoArt
        /\ keywords = <<>>
        /\ calls = <<0, 0>>
        /\ files = <<>>
        /\ result = NoFile
        /\ response = NoResponse

\* C15: every feed failed and the run returned after the last of them
C15_Witness ==
    /\ scope = "run"
    /\ AllFeedsFail
    /\ pc = "done"
    /\ Len(net) = NumFeeds
    /\ result = NoFile

\* extract_article_data returned to run_ultimate_agent and line 745 was passed
AfterExtraction == AfterFetch /\ pc \notin {"extract", "fallback", "extracted"}

\* C16: if the structured extraction fails and the fallback to the feeds'
\* summaries gives no body text either, the run stops: no keyword research,
\* no completion call, no file, and run_ultimate_agent returns no file path.
C16_EmptyExtractionAborts ==
    (scope = "run" /\ AfterExtraction /\ ScrapeFailed /\ art.content = <<>>) =>
        /\ pc \in {"done", "responded"}
        /\ error = "none"
        /\ \A k \in 1..Len(net) : net[k] \in {"feed", "page"}
        /\ keywords = <<>>
        /\ calls = <<0, 0>>
        /\ files = <<>>
        /\ result = NoFile
        /\ response = NoResponse

\* C16: the scrape failed, the fallback used an entry whose summary has no
\* text, and the run returned
C16_Witness ==
    /\ scope = "run"
    /\ pc = "done"
    /\ ScrapeFailed
    /\ HasUsable
    /\ art.title = T2
    /\ art.content = <<>>

\* C17: every failure of a run started by POST /generate reaches the caller
\* as a response with a null html_file and an empty article_html: whatever
\* made the run fail, the handler does not raise.
C17_FailuresReturnNull ==
    (scope = "run" /\ entry = "http") =>
        /\ pc # "raised"
        /\ (pc = "responded" /\ files = <<>>) => response = NoResponse

-----------------------------------------------------------------------------
(* Runs that follow one another and export into the same directory         *)
(* (cointelegraph.py:558-562 and 707-709), from the generation on.         *)

\* the seconds the clock may advance
MaxClock == 1

InitExport ==
    /\ pc = "generate"
    /\ scope = "export"
    /\ script = "cointelegraph"
    /\ entry = "cli"
    /\ MODEL_ID = "model"
    /\ DEEPSEEK_KEY = "key"
    /\ sources = RSS_SOURCES
    /\ feeds = [i \in 1..NumFeeds |-> FeedOf(<<EntryA>>)]
    /\ trends = TrendsDown
    /\ quality = NoQuality
    /\ clock = 0
    /\ args = NoArgs
    /\ ret = NoReturn
    /\ server = IdleServer
    /\ fidx = NumFeeds
    /\ articles = ArticlesOf(feeds[1], RSS_SOURCES[1])
    /\ best = [title |-> T1, url |-> U1]
    /\ url = U1
    /\ scrape = "raised"
    /\ art = FallbackRecord(EntryA, U1)
    /\ keywords = HighValueKeywords
    /\ insights = [common_topics |-> <<>>, content_gaps |-> ContentGaps]
    /\ prompt = build_advanced_prompt(art.content, PrimaryKeywords, insights)
    /\ draft = <<>>
    /\ response2 = NoAnswer
    /\ content = <<>>
    /\ calls = <<0, 0>>
    /\ NoOutcome
    /\ net = <<>>

\* time passes
Tick ==
    /\ scope = "export"
    /\ clock < MaxClock
    /\ clock' = clock + 1
    /\ UNCHANGED <<pc, scope, script, entry, MODEL_ID, DEEPSEEK_KEY, sources, feeds,
                   trends, quality, args, ret, server, fidx, fetched, scrape, art, keywords,
                   insights,
                   prompt, generated,
                   outcome, net>>

\* the next run of the pipeline (the next request, or another process) reaches
\* its generation: what the run before left in OUTPUT_DIR is all that remains
RunAgain ==
    /\ scope = "export"
    /\ pc \in {"done", "raised"}
    /\ pc' = "generate"
    /\ draft' = <<>>
    /\ response2' = NoAnswer
    /\ content' = <<>>
    /\ calls' = <<0, 0>>
    /\ title' = <<>>
    /\ body' = <<>>
    /\ result' = NoFile
    /\ error' = "none"
    /\ net' = <<>>
    /\ UNCHANGED <<env, fidx, fetched, scrape, art, keywords, insights, prompt, files, response>>

NextExport == Stage1 \/ Stage2 \/ Finish \/ Tick \/ RunAgain

SpecExport == InitExport /\ [][NextExport]_vars

\* C18: a file that was exported is never overwritten: no export of a later
\* run replaces what an earlier run wrote, also when the two exports fall in
\* the same second.
C18_NeverOverwritten ==
    [][\A i \in 1..Len(files) : Len(files') >= i /\ files'[i] = files[i]]_vars

-----------------------------------------------------------------------------
(* get_advanced_keywords called alone (cointelegraph.py:258-301), for any  *)
(* behaviour of the trend service.                                         *)

\* tolist()[:5] (line 275)
NumRising == 5

\* how the trend service answers the topics: no rising query, the same two for
\* every topic, two new ones for each topic, one that is also a curated
\* keyword, a new one with a curated one and a repeated one, or seven of which
\* five are kept
AnswerPatterns == {"none", "same", "fresh", "static", "mixed", "long"}

\* the rising queries of the i-th topic
TopicAnswer(pat, i) ==
    CASE pat = "none" -> <<>>
      [] pat = "same" -> <<101, 102>>
      [] pat = "fresh" -> <<100 + 2 * i - 1, 100 + 2 * i>>
      [] pat = "static" -> <<i>>
      [] pat = "mixed" -> <<100 + i, i, 101>>
      [] pat = "long" -> <<201, 202, 203, 204, 205, 206, 207>>

\* lines 271-276: keywords after the first k topics were answered
RECURSIVE Gathered(_, _)
Gathered(pat, k) ==
    IF k = 0 THEN <<>>
    ELSE Gathered(pat, k - 1) \o Take(TopicAnswer(pat, k), NumRising)

\* the trend service fails at the call for topic k + 1 (at the constructor for
\* k = 0), or answers every topic
TrendWorlds ==
    {[queries |-> k + 1, terms |-> Gathered(pat, k), raised |-> TRUE] :
        k \in 0..(NumTrendTopics - 1), pat \in AnswerPatterns}
    \cup {[queries |-> NumTrendTopics, terms |-> Gathered(pat, NumTrendTopics),
           raised |-> FALSE] : pat \in AnswerPatterns}

InitKeywords ==
    /\ pc = "keywords"
    /\ scope = "keywords"
    /\ script = "cointelegraph"
    /\ entry = "cli"
    /\ MODEL_ID = "model"
    /\ DEEPSEEK_KEY = "key"
    /\ sources = RSS_SOURCES
    /\ feeds = [i \in 1..NumFeeds |-> FeedOf(<<EntryA>>)]
    /\ trends \in TrendWorlds
    /\ quality = NoQuality
    /\ clock = 0
    /\ args = NoArgs
    /\ ret = NoReturn
    /\ server = IdleServer
    /\ fidx = NumFeeds
    /\ articles = ArticlesOf(feeds[1], RSS_SOURCES[1])
    /\ best = [title |-> T1, url |-> U1]
    /\ url = U1
    /\ scrape = "raised"
    /\ art = FallbackRecord(EntryA, U1)
    /\ NotYetGenerated
    /\ NoOutcome
    /\ net = <<>>

NextKeywords == ResearchKeywords

SpecKeywords == InitKeywords /\ [][NextKeywords]_vars

\* get_advanced_keywords returned
Researched == scope = "keywords" /\ pc = "competitors"

\* the distinct terms gathered: the rising queries and the curated list
AllTerms == {trends.terms[i] : i \in 1..Len(trends.terms)} \cup (1..NumHighValue)

\* C19: the list get_advanced_keywords returns holds no term twice and at
\* most 20 terms, whatever terms the trend service returned: it holds 20 of
\* the distinct terms gathered, or all of them when they are fewer.
C19_NoDuplicatesAtMostCap ==
    Researched =>
        /\ \A i, j \in 1..Len(keywords) : i # j => keywords[i] # keywords[j]
        /\ Len(keywords) <= KeywordCap
        /\ \A i \in 1..Len(keywords) : keywords[i] \in AllTerms
        /\ Len(keywords) = IF Cardinality(AllTerms) < KeywordCap
                           THEN Cardinality(AllTerms) ELSE KeywordCap

\* C19: the service returned a term more than once and a term of the curated
\* list, the distinct terms were more than 20, and the list was returned
C19_Witness ==
    /\ Researched
    /\ Len(trends.terms) > Cardinality({trends.terms[i] : i \in 1..Len(trends.terms)})
    /\ \E i \in 1..Len(trends.terms) : trends.terms[i] \in 1..NumHighValue
    /\ Cardinality(AllTerms) > KeywordCap
    /\ Len(keywords) = KeywordCap

\* C20: a failure of the trend service is swallowed and gives no term of that
\* source: when a query raises, for whichever topic, get_advanced_keywords
\* does not raise and returns terms of the curated list only.
C20_FailureYieldsNoTerms ==
    (Researched /\ trends.raised) =>
        /\ error = "none"
        /\ \A i \in 1..Len(keywords) : keywords[i] \in 1..NumHighValue

-----------------------------------------------------------------------------
(* The generation of ultimate_crypto_agent.py (475-548), for any quality   *)
(* scores of the draft and of the enhanced text.                           *)

InitEnhance ==
    /\ pc = "generate"
    /\ scope = "enhance"
    /\ script = "ultimate"
    /\ entry = "cli"
    /\ MODEL_ID = "model"
    /\ DEEPSEEK_KEY = "key"
    /\ sources = RSS_SOURCES
    /\ feeds = [i \in 1..NumFeeds |-> FeedOf(<<EntryA>>)]
    /\ trends = TrendsDown
    /\ quality \in [draft : Analyses, enhanced : Analyses]
    /\ clock = 0
    /\ args = NoArgs
    /\ ret = NoReturn
    /\ server = IdleServer
    /\ fidx = NumFeeds
    /\ articles = ArticlesOf(feeds[1], RSS_SOURCES[1])
    /\ best = [title |-> T1, url |-> U1]
    /\ url = U1
    /\ scrape = "raised"
    /\ art = FallbackRecord(EntryA, U1)
    /\ keywords = HighValueKeywords
    /\ insights = [common_topics |-> <<>>, content_gaps |-> ContentGaps]
    /\ prompt = build_advanced_prompt(art.content, PrimaryKeywords, insights)
    /\ draft = <<>>
    /\ response2 = NoAnswer
    /\ content = <<>>
    /\ calls = <<0, 0>>
    /\ NoOutcome
    /\ net = <<>>

NextEnhance == Stage1 \/ Enhance \/ Finish

SpecEnhance == InitEnhance /\ [][NextEnhance]_vars

\* the score line 512 reads is below the threshold of line 514
NeedsEnhancement == ~quality.draft.empty /\ quality.draft.quality_score < 70

\* C21: the enhancement pass is issued at most once per generation, and only
\* when scoring is enabled and the score of the draft is below 70; its text
\* replaces the draft only if the score computed for it is strictly higher
\* than the draft's; otherwise (equal, lower, or no metrics computed) the
\* draft is returned unchanged.
C21_EnhanceOnceIfHigher ==
    scope = "enhance" =>
        /\ calls[2] <= 1
        /\ calls[2] = 1 => (ENABLE_CONTENT_SCORING /\ NeedsEnhancement)
        /\ pc \in {"generated", "done"} =>
            /\ calls[2] = 1 <=> NeedsEnhancement
            /\ content # draft =>
                /\ calls[2] = 1
                /\ ~quality.enhanced.empty
                /\ quality.enhanced.quality_score > quality.draft.quality_score
                /\ content = Strip(response2.text)
            /\ (calls[2] = 1 /\ ~quality.enhanced.empty
                    /\ quality.enhanced.quality_score > quality.draft.quality_score
                    /\ ~response2.none /\ response2.text # <<>>) =>
                content = Strip(response2.text)

\* C21: the pass was issued, its text differs from the draft and scores the
\* same as the draft, and the draft was returned
C21_Witness ==
    /\ scope = "enhance"
    /\ pc = "done"
    /\ calls[2] = 1
    /\ ~response2.none
    /\ Strip(response2.text) # draft
    /\ quality.enhanced.quality_score = quality.draft.quality_score
    /\ content = draft
    /\ draft # <<>>

-----------------------------------------------------------------------------
(* Functions called alone (scope "call"): the arguments are drawn in the   *)
(* initial state and one action applies the function to them.              *)

\* numbers with decimals are held in thousandths (65.0 is 65000, 0.8 is 800)
Thousandths == 10 * 10 * 10

Max(a, b) == IF a >= b THEN a ELSE b

\* round(x, 2), x in ten-thousandths, the result in hundredths. The float that
\* stands for a decimal tie (..5 thousandths) lies on either side of it, so both
\* neighbours are possible there
Round2(x) ==
    LET q == x \div 100
        r == x % 100
    IN  IF r < 50 THEN {q}
        ELSE IF r > 50 THEN {q + 1}
        ELSE {q, q + 1}

\* unclamped variant of line 160
FleschNormUnclamped(flesch_score) == flesch_score

\* cointelegraph.py:160, ultimate_crypto_agent.py:145
FleschNorm(flesch_score) == Max(0, Min(100 * Thousandths, flesch_score))

\* cointelegraph.py:158-167, ultimate_crypto_agent.py:143-152: the values
\* round(quality_score, 2) can give, in hundredths; the arguments in thousandths
calculate_quality_score(flesch_score, sentence_variety, sentiment_score) ==
    LET flesch_norm == FleschNorm(flesch_score)
        variety_norm == sentence_variety * 100
        sentiment_norm == (sentiment_score + Thousandths) * 50
        \* in ten-thousandths: the weights are 0.4, 0.3 and 0.3
        quality_score == flesch_norm * 4 + variety_norm * 3 + sentiment_norm * 3
    IN  Round2(quality_score)

\* the scores tried: textstat's Flesch reading ease is not bounded, the variety
\* is a share of the sentences and TextBlob's polarity lies in [-1, 1]
FleschScores == {-20000, 0, 12345, 65000, 100000, 121220}
Varieties == {0, 333, 800, 1000}
Sentiments == {-1000, -1, 0, 200, 201, 1000}

ScoreArgs ==
    [fn : {"calculate_quality_score"}, flesch_score : FleschScores,
     sentence_variety : Varieties, sentiment_score : Sentiments]

\* cointelegraph.py:566-569, 572-573: the longest title and description kept whole
MetaTitleMax == 60
MetaDescriptionMax == 160

\* cointelegraph.py:69-70, 583
MIN_READING_TIME == 8
MAX_READING_TIME == 12
WordsPerMinute == 200

Ellipsis == <<".", ".", ".">>

\* cointelegraph.py:568 and 573: s[:n - 3] + "..."
Shortened(s, n) == Take(s, n - 3) \o Ellipsis

\* cointelegraph.py:566-569 (meta_title), 572-573 (meta_description)
Truncated(s, n) == IF Len(s) > n THEN Shortened(s, n) ELSE s

\* cointelegraph.py:712-725, generate_seo_meta_tags: the description of the
\* three description tags is description[:160]
MetaTagDescription(description) == Take(description, MetaDescriptionMax)

\* a variant of ReadingTime without the lower limit
ReadingTimeNoMin(word_count) == Min(MAX_READING_TIME, word_count \div WordsPerMinute)

\* cointelegraph.py:583, ultimate_crypto_agent.py:573
ReadingTime(word_count) ==
    Max(MIN_READING_TIME, Min(MAX_READING_TIME, word_count \div WordsPerMinute))

\* cointelegraph.py:564-583 and 626-681, ultimate_crypto_agent.py:559-573 and
\* 616-664: the title strings and the description strings the document holds, in
\* the order they are written, and its reading time. cointelegraph.py keeps the
\* stripped title beside meta_title and writes it into <h1> (line 678);
\* ultimate_crypto_agent.py overwrites title (line 561) and has no meta section
Document(s, title_arg, description_arg, word_count) ==
    LET stripped == Strip(title_arg)
        meta_title == Truncated(stripped, MetaTitleMax)
        meta_description == Truncated(Strip(description_arg), MetaDescriptionMax)
        tag == MetaTagDescription(meta_description)
    IN  [titles |->
            IF s = "cointelegraph"
            THEN <<meta_title, meta_title, meta_title, meta_title, meta_title, stripped>>
            ELSE <<meta_title, meta_title, meta_title, meta_title, meta_title>>,
         descriptions |->
            IF s = "cointelegraph"
            THEN <<tag, tag, tag, meta_description, meta_description>>
            ELSE <<tag, tag, tag, meta_description>>,
         reading_time |-> ReadingTime(word_count)]

\* texts of a given length whose characters differ from their neighbours
Letters == <<"a", "b", "c", "d", "e", "f", "g", "h", "i", "j">>
TextOf(n) == [i \in 1..n |-> Letters[(i % 10) + 1]]
Padded(t) == <<" ">> \o t \o <<" ", "\n">>

TitleLengths == {0, 1, 57, 60, 61, 70}
DescriptionLengths == {0, 150, 153, 160, 161, 200}
WordCounts == {0, 100, 199, 1600, 1799, 2000, 2399, 2400, 2401, 5000}

\* the arguments of export_advanced_html; of content, the number of its words
ExportArgs ==
    { [fn |-> "export_advanced_html", title |-> t, meta_description |-> d, word_count |-> w] :
        t \in {TextOf(n) : n \in TitleLengths} \cup {Padded(TextOf(n)) : n \in TitleLengths},
        d \in {TextOf(n) : n \in DescriptionLengths}
                \cup {Padded(TextOf(n)) : n \in DescriptionLengths},
        w \in WordCounts }

\* a homepage with more than ten headings, the eleventh and twelfth of them long
HeadingLate == <<"h", "e", "a", "d", "i", "n", "g", " ", "l", "a", "t", "e">>
ManyHeadings == [i \in 1..12 |-> IF i > 10 THEN HeadingLate ELSE HeadingShort]

\* what each of the three homepages does
CompetitorWorlds ==
    [1..NumCompetitorSites ->
        SiteOutcomes \cup {SiteOf(<<>>), SiteOf(<<HeadingLate>>), SiteOf(ManyHeadings)}]

CompetitorArgs == [fn : {"analyze_competitor_content"}, sites : CompetitorWorlds]

\* the pages the try block of extract_article_data is applied to
ScrapeArgs == [fn : {"scrape"}, page : Pages]

\* temp/cointelegraph1.py:534-535: select_one("h1") or find("title")
SingleFeedTitle(p) ==
    IF p.titles[1].found THEN GetText(p.titles[1].html)
    ELSE IF p.titles[4].found THEN GetText(p.titles[4].html)
    ELSE UntitledArticle

\* temp/cointelegraph1.py:537-538: select("div.post-content p") or select("article p")
SingleFeedContent(p) ==
    LET paras == IF p.contents[1] # <<>> THEN p.contents[1] ELSE p.contents[2]
    IN  Join(NonEmpty([i \in 1..Len(paras) |-> GetText(paras[i])]), NLNL)

\* temp/cointelegraph1.py:542-547: the except block has no try of its own, so
\* parse, feed.entries[0], entry.summary and entry.title raise out of the call
SingleFeedFallback(feed, u) ==
    IF feed.raises \/ feed.entries = <<>> THEN [raised |-> TRUE, record |-> NoArt]
    ELSE LET e == feed.entries[1]
         IN  IF ~e.hasSummary \/ ~e.hasTitle THEN [raised |-> TRUE, record |-> NoArt]
             ELSE [raised |-> FALSE,
                   record |-> [title |-> e.title, content |-> GetText(e.summary), url |-> u]]

\* temp/cointelegraph1.py:519-547, extract_article_data(url)
extract_article_data_single(page, feed, u) ==
    IF ~page.raises /\ SingleFeedContent(page) # <<>>
    THEN [raised |-> FALSE,
          record |-> [title |-> SingleFeedTitle(page), content |-> SingleFeedContent(page),
                      url |-> u]]
    ELSE SingleFeedFallback(feed, u)

\* the page and the state of the one feed (RSS_URL) the call meets
SingleFeedArgs ==
    [fn : {"extract_article_data_single"}, page : {GetRaises} \cup Pages, feed : FeedOutcomes,
     url : {U1}]

CallArgs == ScoreArgs \cup ExportArgs \cup CompetitorArgs \cup ScrapeArgs \cup SingleFeedArgs

InitCall ==
    /\ pc = "call"
    /\ scope = "call"
    /\ script \in {"cointelegraph", "ultimate"}
    /\ entry = "cli"
    /\ MODEL_ID = "model"
    /\ DEEPSEEK_KEY = "key"
    /\ sources = RSS_SOURCES
    /\ feeds = [i \in 1..NumFeeds |-> FeedOf(<<EntryA>>)]
    /\ trends = TrendsDown
    /\ quality = NoQuality
    /\ clock = 0
    /\ args \in CallArgs
    /\ ret = NoReturn
    /\ server = IdleServer
    /\ fidx = NumFeeds
    /\ articles = ArticlesOf(feeds[1], RSS_SOURCES[1])
    /\ best = [title |-> T1, url |-> U1]
    /\ url = U1
    /\ scrape = "raised"
    /\ art = FallbackRecord(EntryA, U1)
    /\ NotYetGenerated
    /\ NoOutcome
    /\ net = <<>>

\* calculate_quality_score(flesch_score, sentence_variety, sentiment_score)
CallQualityScore ==
    /\ pc = "call"
    /\ args.fn = "calculate_quality_score"
    /\ \E v \in calculate_quality_score(args.flesch_score, args.sentence_variety,
                                        args.sentiment_score) :
            ret' = [returned |-> TRUE, value |-> v]
    /\ pc' = "returned"
    /\ UNCHANGED <<world, server, fidx, fetched, scrape, art, keywords, insights, prompt,
                   generated,
                   outcome, net>>

\* export_advanced_html(title, content, keywords, meta_description, ...): what
\* the document it writes holds
CallExport ==
    /\ pc = "call"
    /\ args.fn = "export_advanced_html"
    /\ ret' = [returned |-> TRUE,
               document |-> Document(script, args.title, args.meta_description,
                                     args.word_count)]
    /\ pc' = "returned"
    /\ UNCHANGED <<world, server, fidx, fetched, scrape, art, keywords, insights, prompt,
                   generated,
                   outcome, net>>

\* cointelegraph.py:201-253, analyze_competitor_content(keywords, topic): one
\* request per site, whatever the earlier ones did. Outside the inner try the
\* function builds two literals and logs, so the outer except (line 251) has
\* nothing to catch and the function returns at line 249
CallCompetitors ==
    /\ pc = "call"
    /\ args.fn = "analyze_competitor_content"
    /\ ret' = [returned |-> TRUE,
               value |-> [common_topics |-> AllTopics(args.sites),
                          content_gaps |-> ContentGaps]]
    /\ net' = net \o Repeat("competitor", NumCompetitorSites)
    /\ pc' = "returned"
    /\ UNCHANGED <<world, server, fidx, fetched, scrape, art, keywords, insights, prompt,
                   generated,
                   outcome>>

\* cointelegraph.py:367-396: the try block of extract_article_data on a page
\* that was fetched: the record it returns, or the ValueError of line 394 that
\* sends the call to the feeds
CallScrape ==
    /\ pc = "call"
    /\ args.fn = "scrape"
    /\ ret' = [returned |-> TRUE,
               fallback |-> PageContent(args.page) = <<>>,
               title |-> PageTitle(args.page),
               content |-> PageContent(args.page)]
    /\ pc' = "returned"
    /\ UNCHANGED <<world, server, fidx, fetched, scrape, art, keywords, insights, prompt,
                   generated,
                   outcome, net>>

\* temp/cointelegraph1.py:519-547: the call returns a record or ends with the
\* exception its except block raised
CallExtractSingleFeed ==
    /\ pc = "call"
    /\ args.fn = "extract_article_data_single"
    /\ LET out == extract_article_data_single(args.page, args.feed, args.url)
       IN  /\ ret' = [returned |-> ~out.raised, value |-> out.record]
           /\ pc' = IF out.raised THEN "raised" ELSE "returned"
    /\ net' = net \o <<"page">> \o
                (IF args.page.raises \/ SingleFeedContent(args.page) = <<>>
                 THEN <<"feed">> ELSE <<>>)
    /\ UNCHANGED <<world, server, fidx, fetched, scrape, art, keywords, insights, prompt,
                   generated,
                   outcome>>

NextCall ==
    \/ CallQualityScore
    \/ CallExport
    \/ CallCompetitors
    \/ CallScrape
    \/ CallExtractSingleFeed

SpecCall == InitCall /\ [][NextCall]_vars

\* the call of this function has returned
CallReturned(fn) == scope = "call" /\ pc = "returned" /\ args.fn = fn /\ ret.returned

\* C22: calculate_quality_score returns 0.4 * clamp(flesch, 0, 100) +
\* 0.3 * (100 * variety) + 0.3 * (50 * (sentiment + 1)) rounded to two places; the
\* result lies in [0, 100] for every flesch score when the variety lies in [0, 1]
\* and the sentiment in [-1, 1]; 65, 0.8 and 0.2 give 68.0.
C22_QualityScore ==
    CallReturned("calculate_quality_score") =>
        LET f == args.flesch_score
            v == args.sentence_variety
            s == args.sentiment_score
            clamp == IF f < 0 THEN 0 ELSE IF f > 100000 THEN 100000 ELSE f
            \* the weighted sum in ten-thousandths
            sum == 4 * clamp + 300 * v + 150 * (s + 1000)
            diff == 100 * ret.value - sum
        IN  /\ diff <= 50 /\ diff >= -50
            /\ (v >= 0 /\ v <= 1000 /\ s >= -1000 /\ s <= 1000) =>
                    (ret.value >= 0 /\ ret.value <= 10000)
            /\ (f = 65000 /\ v = 800 /\ s = 200) => ret.value = 6800

\* C22: a Flesch score above 100 with full variety and sentiment gives 100.0
C22_Witness ==
    /\ CallReturned("calculate_quality_score")
    /\ args.flesch_score > 100000
    /\ args.sentence_variety = 1000
    /\ args.sentiment_score = 1000
    /\ ret.value = 10000

\* C23: the exporter cuts the title to at most 60 characters (the first 57 and
\* "...") and the description to at most 160 (the first 157 and "..."): no title
\* written into the document is longer than 60 characters, no description longer
\* than 160, and a (stripped) input within the limit is written unchanged.
C23_TruncatedEverywhere ==
    CallReturned("export_advanced_html") =>
        LET doc == ret.document
            t == Strip(args.title)
            d == Strip(args.meta_description)
        IN  /\ \A i \in DOMAIN doc.titles :
                /\ Len(doc.titles[i]) <= 60
                /\ Len(t) <= 60 => doc.titles[i] = t
                /\ Len(t) > 60 => doc.titles[i] = SubSeq(t, 1, 57) \o <<".", ".", ".">>
            /\ \A i \in DOMAIN doc.descriptions :
                /\ Len(doc.descriptions[i]) <= 160
                /\ Len(d) <= 160 => doc.descriptions[i] = d
                /\ Len(d) > 160 =>
                        doc.descriptions[i] = SubSeq(d, 1, 157) \o <<".", ".", ".">>

\* C24: the reading time is floor(word count / 200) clamped into
\* [MIN_READING_TIME, MAX_READING_TIME] = [8, 12]: 8 for 100 words and 12 for
\* every word count of 2400 or more.
C24_ReadingTime ==
    CallReturned("export_advanced_html") =>
        LET w == args.word_count
            t == ret.document.reading_time
        IN  /\ t >= 8 /\ t <= 12
            /\ \A n \in 8..12 : (200 * n <= w /\ w < 200 * (n + 1)) => t = n
            /\ w < 1600 => t = 8
            /\ w = 100 => t = 8
            /\ w >= 2400 => t = 12

\* C24: a text of 2000 words is read in 10 minutes, between the two limits
C24_Witness ==
    /\ CallReturned("export_advanced_html")
    /\ args.word_count = 2000
    /\ ret.document.reading_time = 10

\* the topics analyze_competitor_content keeps of one homepage that answered
TopicsOfSite(site) == Topics(SubSeq(site.headings, 1, Min(10, Len(site.headings))))

InSeq(x, q) == \E i \in DOMAIN q : q[i] = x

\* C25: analyze_competitor_content never raises: for every combination of
\* successes and failures of the (at most three) sites it returns a record whose
\* content_gaps is the fixed list of five suggestions, and the failure of one
\* site does not keep the remaining sites from being analysed.
C25_CompetitorsNeverRaise ==
    CallReturned("analyze_competitor_content") =>
        /\ error = "none"
        /\ ret.value.content_gaps = <<1, 2, 3, 4, 5>>
        /\ Len(net) = 3
        /\ \A i \in DOMAIN net : net[i] = "competitor"
        /\ \A i \in DOMAIN args.sites :
            ~args.sites[i].raises =>
                \A j \in DOMAIN TopicsOfSite(args.sites[i]) :
                    InSeq(TopicsOfSite(args.sites[i])[j], ret.value.common_topics)
        /\ (\A i \in DOMAIN args.sites : args.sites[i].raises) =>
                ret.value.common_topics = <<>>

\* C25: the first site fails, the third one answers, and its topic is kept
C25_Witness ==
    /\ CallReturned("analyze_competitor_content")
    /\ args.sites[1].raises
    /\ args.sites[2].raises
    /\ ~args.sites[3].raises
    /\ ret.value.common_topics = <<HeadingLate>>
    /\ ret.value.content_gaps = ContentGaps

-----------------------------------------------------------------------------
(* The order of a run (Spec).                                              *)

\* the component of run_ultimate_agent the control is in: 1 Source Fetcher,
\* 2 Content Extractor, 3 Keyword Researcher, 4 Competitor Analyzer, 5 Prompt
\* Builder, 6 Generation Orchestrator, 7 HTML Exporter (with the checks before
\* it), 8 the run has ended
Component(p) ==
    CASE p = "start" -> 0
      [] p = "fetch" -> 1
      [] p \in {"extract", "fallback", "extracted"} -> 2
      [] p = "keywords" -> 3
      [] p = "competitors" -> 4
      [] p = "prompt" -> 5
      [] p \in {"generate", "stage2"} -> 6
      [] p = "generated" -> 7
      [] OTHER -> 8

\* a step stays in a component, enters the next one, or ends the run
InOrder == Component(pc') \in {Component(pc), Component(pc) + 1, 8}

CompletionCalled == \E i \in DOMAIN net : net[i] = "completion"

\* C26: in every run the components are invoked in the order Source Fetcher,
\* Content Extractor, Keyword Researcher, Competitor Analyzer, Prompt Builder,
\* Generation Orchestrator, HTML Exporter, each at most once; the completion
\* endpoint is called only if the fetcher returned a candidate and the extraction
\* returned non-empty content; a file is written only after the generation
\* returned a non-blank text, and at most once in a run.
C26_OrderedRun ==
    /\ [][InOrder]_vars
    /\ [][files' # files => (pc = "generated" /\ files = <<>> /\ Strip(content) # <<>>)]_vars
    /\ [](CompletionCalled =>
            /\ articles # <<>>
            /\ art.content # <<>>
            /\ prompt.built)
    /\ [](Len(files) <= 1)

\* C26: a run went through every component and wrote its file
C26_Witness ==
    /\ scope = "run"
    /\ pc = "done"
    /\ scrape = "raised"
    /\ prompt.built
    /\ calls = <<1, 1>>
    /\ Len(files) = 1
    /\ result # NoFile

\* C30: in a run the prompt's secondary keyword list never holds more than 2
\* entries and the primary list never more than 8: run_ultimate_agent passes the
\* first 10 keywords to build_advanced_prompt, which takes [0:8] as primary and
\* [8:15] as secondary, so the keywords at positions 10..19 of the researcher's
\* list reach neither the prompt nor the exported document.
C30_PromptKeywords ==
    (scope = "run" /\ prompt.built) =>
        LET n == Len(keywords)
            late == {keywords[i] : i \in 11..n}
            Among(q) == {q[i] : i \in DOMAIN q}
        IN  /\ Len(prompt.primary_keywords) <= 8
            /\ Len(prompt.secondary_keywords) <= 2
            /\ prompt.primary_keywords = SubSeq(keywords, 1, IF n < 8 THEN n ELSE 8)
            /\ prompt.secondary_keywords = SubSeq(keywords, 9, IF n < 10 THEN n ELSE 10)
            /\ Among(prompt.primary_keywords) \cap late = {}
            /\ Among(prompt.secondary_keywords) \cap late = {}
            /\ \A i \in DOMAIN files : Among(files[i].keywords) \cap late = {}

\* C30: the researcher returned 20 keywords, the prompt holds 8 and 2 of them
\* and the document is written
C30_Witness ==
    /\ scope = "run"
    /\ pc = "done"
    /\ Len(keywords) = 20
    /\ Len(prompt.primary_keywords) = 8
    /\ Len(prompt.secondary_keywords) = 2
    /\ Len(files) = 1
    /\ Len(files[1].keywords) = 10

\* the texts of the paragraphs a content selector matched, the empty ones left out
TextsOfMatch(ps) == NonEmpty([i \in 1..Len(ps) |-> GetText(ps[i])])

\* C27: the extractor uses, in each ordered selector list, the first selector
\* that yields a non-empty match: when an earlier content selector matches only
\* elements without text and a later one matches paragraphs with text, the body
\* is taken from the later selector (and likewise the title) and the call does
\* not fall back to the feed.
C27_FirstNonEmptyMatch ==
    CallReturned("scrape") =>
        LET p == args.page
            HasText(k) == TextsOfMatch(p.contents[k]) # <<>>
            HasTitle(k) == p.titles[k].found /\ GetText(p.titles[k].html) # <<>>
        IN  /\ \A k \in 1..NumContentSelectors :
                (HasText(k) /\ \A j \in 1..(k - 1) : ~HasText(j)) =>
                    /\ ~ret.fallback
                    /\ ret.content = Join(TextsOfMatch(p.contents[k]), NLNL)
            /\ \A k \in 1..NumTitleSelectors :
                (HasTitle(k) /\ \A j \in 1..(k - 1) : ~HasTitle(j)) =>
                    ret.title = GetText(p.titles[k].html)

\* C28: the single-feed extractor of temp/cointelegraph1.py never raises either:
\* when the scrape fails and the feed is unreachable, holds no entry, or its
\* first entry lacks a summary or a title, the call still returns a record.
C28_SingleFeedNeverRaises ==
    (scope = "call" /\ args.fn = "extract_article_data_single" /\ pc # "call") =>
        /\ pc = "returned"
        /\ ret.returned
        /\ DOMAIN ret.value = {"title", "content", "url"}
        /\ ret.value.url = args.url

-----------------------------------------------------------------------------
(* The server process of main.py (scope "server"): uvicorn.run(app) of      *)
(* line 64 serves every request on one event loop. A handler is a coroutine *)
(* (async def, lines 43 and 55): once the loop has started it, the loop     *)
(* gets the control back where the coroutine awaits, or when it ends.       *)

\* most requests the clients send
MaxRequests == 2

\* a variant of AwaitPoints: the handler awaits between the two completion calls
AwaitPointsStage2 == {"stage2"}

\* the positions at which the handler of POST /generate awaits: line 44 calls
\* run_ultimate_agent() as a plain function and lines 46-52 hold no await
AwaitPoints == {}

\* the positions at which a handler runs
Handling == {"generate", "stage2", "generated", "done", "logs"}

\* a client sends a request; the loop has not started its handler yet
Arrive ==
    /\ scope = "server"
    /\ server.arrived < MaxRequests
    /\ \E kind \in {"generate", "logs"} :
        server' = [server EXCEPT
                      !.arrived = @ + 1,
                      !.ready = Append(@, [id |-> server.arrived + 1, kind |-> kind,
                                           during |-> server.current])]
    /\ UNCHANGED <<pc, world, ret, fidx, fetched, scrape, art, keywords, insights, prompt,
                   generated, outcome, net>>

\* the loop starts the handler of a waiting request: main.py:43-44 (the run,
\* taken from the generation on) or main.py:55-56
Dispatch ==
    /\ scope = "server"
    /\ server.ready # <<>>
    /\ server.current = 0 \/ pc \in AwaitPoints
    /\ \E i \in DOMAIN server.ready :
        LET r == server.ready[i]
        IN  /\ server' = [server EXCEPT
                            !.ready = SubSeq(@, 1, i - 1) \o SubSeq(@, i + 1, Len(@)),
                            !.current = r.id,
                            !.active = @ \cup {r.id},
                            !.events = Append(@, [id |-> r.id, what |-> "start",
                                                  during |-> r.during])]
            /\ pc' = IF r.kind = "generate" THEN "generate" ELSE "logs"
    /\ draft' = <<>>
    /\ response2' = NoAnswer
    /\ content' = <<>>
    /\ calls' = <<0, 0>>
    /\ title' = <<>>
    /\ body' = <<>>
    /\ result' = NoFile
    /\ error' = "none"
    /\ net' = <<>>
    /\ UNCHANGED <<world, ret, fidx, fetched, scrape, art, keywords, insights, prompt, files,
                   response>>

\* main.py:54-61, get_logs: the last lines of app.log (the log is not part of
\* the model)
GetLogs ==
    /\ scope = "server"
    /\ pc = "logs"
    /\ pc' = "responded"
    /\ UNCHANGED <<env, fidx, fetched, scrape, art, keywords, insights, prompt, generated,
                   outcome, net>>

\* the handler has returned (main.py:49-52, 58, 61) or raised: the loop has the
\* control again
EndRequest ==
    /\ scope = "server"
    /\ server.current # 0
    /\ pc \in {"responded", "raised"}
    /\ server' = [server EXCEPT
                    !.current = 0,
                    !.active = @ \ {server.current},
                    !.events = Append(@, [id |-> server.current, what |-> "end",
                                          during |-> 0])]
    /\ pc' = "idle"
    /\ UNCHANGED <<world, ret, fidx, fetched, scrape, art, keywords, insights, prompt,
                   generated, outcome, net>>

InitServer ==
    /\ pc = "idle"
    /\ scope = "server"
    /\ script = "cointelegraph"
    /\ entry = "http"
    /\ MODEL_ID = "model"
    /\ DEEPSEEK_KEY = "key"
    /\ sources = RSS_SOURCES
    /\ feeds = [i \in 1..NumFeeds |-> FeedOf(<<EntryA>>)]
    /\ trends = TrendsDown
    /\ quality = NoQuality
    /\ clock = 0
    /\ args = NoArgs
    /\ ret = NoReturn
    /\ server = IdleServer
    /\ fidx = NumFeeds
    /\ articles = ArticlesOf(feeds[1], RSS_SOURCES[1])
    /\ best = [title |-> T1, url |-> U1]
    /\ url = U1
    /\ scrape = "raised"
    /\ art = FallbackRecord(EntryA, U1)
    /\ keywords = HighValueKeywords
    /\ insights = [common_topics |-> <<>>, content_gaps |-> ContentGaps]
    /\ prompt = build_advanced_prompt(art.content, PrimaryKeywords, insights)
    /\ draft = <<>>
    /\ response2 = NoAnswer
    /\ content = <<>>
    /\ calls = <<0, 0>>
    /\ NoOutcome
    /\ net = <<>>

NextServer ==
    \/ Arrive
    \/ Dispatch
    \/ Stage1
    \/ Stage2
    \/ Finish
    \/ Respond
    \/ GetLogs
    \/ EndRequest

SpecServer == InitServer /\ [][NextServer]_vars

\* C29: within one server process the runs that concurrent POST /generate
\* requests start never interleave: the handler runs the whole blocking pipeline
\* without yielding, so the run of a second request (and any GET /logs) starts
\* only after the first run has returned, and at most one run is in progress at
\* any time.
C29_NoInterleaving ==
    scope = "server" =>
        LET ev == server.events
        IN  /\ Cardinality(server.active) <= 1
            /\ \A i \in DOMAIN ev :
                /\ (i % 2 = 1) => ev[i].what = "start"
                /\ (i % 2 = 0) => (ev[i].what = "end" /\ ev[i].id = ev[i - 1].id)
            /\ pc \in Handling => (Len(ev) % 2 = 1 /\ server.active = {ev[Len(ev)].id})
            /\ pc = "idle" => (Len(ev) % 2 = 0 /\ server.active = {})

\* C29: a second request arrived while the run of the first was in progress,
\* and both runs ended, each with its file written
C29_Witness ==
    /\ scope = "server"
    /\ pc = "idle"
    /\ Len(server.events) = 4
    /\ server.events[3].during = server.events[1].id
    /\ server.events[1].id # server.events[3].id
    /\ response.html_file # NoFile
    /\ files # <<>>

=============================================================================
